---- MODULE Spec2Model ----
(***************************************************************************)
(* A model of the WhatsApp commerce bot (abdulwasea89/automation).         *)
(*                                                                         *)
(* Part 1 (specification Spec): the /webhook/zoko handler of src/main.py   *)
(* with the MessageDeduplicator it guards background processing with.      *)
(* Handlers run on one asyncio event loop: a handler is suspended only at  *)
(* an await, so everything between two awaits is one atomic step.          *)
(***************************************************************************)
EXTENDS Integers, Sequences, FiniteSets, Bags, TLC

VARIABLES
    available_templates,  \* zoko_client.available_templates: ids of the loaded active
                          \*   button templates; empty when zoko_templates.json is absent
    now,            \* the value time() returns (src/main.py:175), non-decreasing
    processed_ids,  \* deduplicator.processed_ids: the OrderedDict as a sequence of [id, ts]
    inflight,       \* the bag of request bodies whose handlers are suspended at
                    \*   await request.json()
    background,     \* background_tasks of the request handled last: the payloads
                    \*   add_task queued for process_zoko_message
    outbox,         \* the HTTP requests the most recent handler run issued, in order
    catalog_file,   \* products_export.json: whether it exists, and its rows
    loader,         \* product_loader: df, and the rows whose texts are embedded
    call,           \* the function called directly, with its arguments
    result,         \* what that call returned
    recorded,       \* history: per message id, when is_duplicate last recorded it and
                    \*          how many ids were recorded after it (saturating at max_size)
    last            \* history: what the most recently completed handler did

vars ==
    <<available_templates, now, processed_ids, inflight, background, outbox,
      catalog_file, loader, call, result, recorded, last>>

----------------------------------------------------------------------------
(* Bounds of the model *)

NumIds == 3       \* distinct message ids the channel delivers
MaxTime == 3      \* the clock runs 0..MaxTime

(* MessageDeduplicator(max_size=1000, ttl=3600), scaled down so that TLC   *)
(* reaches both the size eviction and the expiry.                          *)
max_size == 2
ttl == 2

MsgIds == 1..NumIds

(* the handlers that may be suspended at the same time *)
Handlers == {"h1", "h2"}

----------------------------------------------------------------------------
(* Recipient identifiers: sequences of characters, as the regex reads them *)

Digits == {"0", "1", "2", "3", "4", "5", "6", "7", "8", "9"}

GoodChat == <<"1", "5", "5", "5", "0", "1", "0", "0", "9", "9">>
PlusChat == <<"+">> \o GoodChat
ZeroChat == <<"0", "5", "5", "5", "0", "1", "0", "0", "9", "9">>
ShortChat == <<"1", "2", "3">>
NameChat == <<"g", "r", "o", "u", "p", "-", "c", "h", "a", "t">>

NewlineChat == GoodChat \o <<"\n">>

(* ZokoClient._validate_phone: re.match(r"^\+?[1-9]\d{9,14}$", chat_id); $  *)
(* matches at the end of the string and before a newline that ends it       *)
ValidAnyMutant(chat) == TRUE

ValidPhone(chat) ==
    LET rest == IF Len(chat) > 0 /\ chat[1] = "+" THEN Tail(chat) ELSE chat
        body == IF Len(rest) > 0 /\ rest[Len(rest)] = "\n"
                THEN SubSeq(rest, 1, Len(rest) - 1) ELSE rest
    IN  /\ Len(body) >= 10
        /\ Len(body) <= 15
        /\ body[1] \in Digits \ {"0"}
        /\ \A i \in 2..Len(body) : body[i] \in Digits

----------------------------------------------------------------------------
(* MessageDeduplicator (src/main.py:165-188) *)

(* line 177: current_time - <oldest timestamp> > self.ttl *)
Expired(ts, t) == t - ts > ttl

(* lines 177-178: pop from the front while the oldest entry is expired *)
ExpireNothingMutant(store, t) == store

RECURSIVE ExpireFront(_, _)
ExpireFront(store, t) ==
    IF store /= <<>> /\ Expired(store[1].ts, t)
    THEN ExpireFront(Tail(store), t)
    ELSE store

(* line 180: message_id in self.processed_ids *)
Contains(store, id) == \E i \in 1..Len(store) : store[i].id = id

(* line 184: self.processed_ids[message_id] = current_time (a new key goes last) *)
DedupInsertNothingMutant(store, id, t) == store

DedupInsert(store, id, t) == Append(store, [id |-> id, ts |-> t])

(* lines 186-187: popitem(last=False) while len > max_size *)
TrimNewestMutant(store) ==
    IF Len(store) > max_size THEN SubSeq(store, 1, max_size) ELSE store

RECURSIVE TrimOldest(_)
TrimOldest(store) ==
    IF Len(store) > max_size THEN TrimOldest(Tail(store)) ELSE store

(* a lookup that refreshes: the id found goes last with the current time *)
IsDuplicateRefreshMutant(store, id, t) ==
    IF Contains(ExpireFront(store, t), id)
    THEN [dup |-> TRUE, live |-> ExpireFront(store, t),
          store |-> Append(SelectSeq(ExpireFront(store, t), LAMBDA e : e.id /= id),
                           [id |-> id, ts |-> t])]
    ELSE [dup |-> FALSE, live |-> ExpireFront(store, t),
          store |-> TrimOldest(DedupInsert(ExpireFront(store, t), id, t))]

(* is_duplicate as a whole: the value returned and the store it leaves *)
IsDuplicateNoCheckMutant(store, id, t) ==
    [dup |-> FALSE, live |-> ExpireFront(store, t),
     store |-> TrimOldest(DedupInsert(ExpireFront(store, t), id, t))]

IsDuplicate(store, id, t) ==
    LET live == ExpireFront(store, t)
    IN  IF Contains(live, id)
        THEN [dup |-> TRUE, live |-> live, store |-> live]
        ELSE [dup |-> FALSE, live |-> live,
              store |-> TrimOldest(DedupInsert(live, id, t))]

----------------------------------------------------------------------------
(* Python values.  Every value is a record [t, v]; a string is a sequence  *)
(* of tokens (a token is one character, or a fixed phrase that the code    *)
(* only ever compares or copies as a whole), a dict is the sequence of its *)
(* <<key, value>> pairs in insertion order, a list the sequence of its     *)
(* elements.                                                               *)

Str(s) == [t |-> "str", v |-> s]
Dict(pairs) == [t |-> "dict", v |-> pairs]
List(elems) == [t |-> "list", v |-> elems]
PyInt(n) == [t |-> "int", v |-> <<n>>]
PyBool(b) == [t |-> "bool", v |-> <<b>>]
PyNone == [t |-> "none", v |-> <<>>]

IsStr(x) == x.t = "str"
IsDict(x) == x.t = "dict"
IsList(x) == x.t = "list"

(* bool(x) of Python: empty containers, None, 0 and False are falsy *)
Truthy(x) ==
    CASE x.t = "none" -> FALSE
      [] x.t = "bool" -> x.v[1]
      [] x.t = "int" -> x.v[1] /= 0
      [] OTHER -> x.v /= <<>>

(* k in d *)
HasKey(d, k) == \E i \in 1..Len(d.v) : d.v[i][1] = k

(* d.get(k, default) *)
Get(d, k, default) ==
    IF HasKey(d, k)
    THEN d.v[CHOOSE i \in 1..Len(d.v) : d.v[i][1] = k][2]
    ELSE default

(* d[k] = x: an existing key keeps its place, a new key goes last *)
Put(d, k, x) ==
    IF HasKey(d, k)
    THEN Dict([i \in 1..Len(d.v) |-> IF d.v[i][1] = k THEN <<k, x>> ELSE d.v[i]])
    ELSE Dict(Append(d.v, <<k, x>>))

(* s[:n] *)
Take(s, n) == IF Len(s) > n THEN SubSeq(s, 1, n) ELSE s

Max(S) == CHOOSE x \in S : \A y \in S : y <= x

(* F applied to the value of x, which is computed once *)
Apply(F(_), x) == CHOOSE y \in {F(v) : v \in {x}} : TRUE

(* a key of a dict literal and its value *)
KV(k, x) == << <<k>>, x >>

(* s.startswith(p) *)
StartsWith(s, p) == Len(s) >= Len(p) /\ SubSeq(s, 1, Len(p)) = p

(* a string of n copies of one character *)
Rep(c, n) == [i \in 1..n |-> c]

Whitespace == {" ", "\n"}

(* s.strip() *)
RECURSIVE LStrip(_)
LStrip(s) == IF s /= <<>> /\ s[1] \in Whitespace THEN LStrip(Tail(s)) ELSE s

RECURSIVE RStrip(_)
RStrip(s) ==
    IF s /= <<>> /\ s[Len(s)] \in Whitespace
    THEN RStrip(SubSeq(s, 1, Len(s) - 1))
    ELSE s

Strip(s) == RStrip(LStrip(s))

----------------------------------------------------------------------------
(* json / orjson: loads and dumps over token strings.                      *)
(* Structural characters are the one-character tokens { } [ ] : , " and \; *)
(* every other token is an ordinary character of a string.                 *)

Q == "\""
BS == "\\"
DigitVal(c) == CHOOSE n \in 0..9 : ToString(n) = c

NoParse == [ok |-> FALSE, val |-> PyNone, pos |-> 0]

RECURSIVE SkipWs(_, _)
SkipWs(s, i) == IF i <= Len(s) /\ s[i] \in Whitespace THEN SkipWs(s, i + 1) ELSE i

(* the backslashes that end just before position k of a literal that     *)
(* starts at i                                                             *)
RECURSIVE Backslashes(_, _, _)
Backslashes(s, k, i) ==
    IF k - 1 >= i /\ s[k - 1] = BS THEN 1 + Backslashes(s, k - 1, i) ELSE 0

(* they are odd in number: the character at k is escaped *)
Escaped(s, k, i) == Backslashes(s, k, i) % 2 = 1

(* the character a position of a literal stands for *)
Unescape(s, k, i) == IF Escaped(s, k, i) /\ s[k] = "n" THEN "\n" ELSE s[k]

(* the closing quote of a literal: the first quote that is not escaped *)
StringEnd(s, i) ==
    LET closes == {j \in i..Len(s) : s[j] = Q /\ ~Escaped(s, j, i)}
    IN  IF closes = {} THEN 0 ELSE CHOOSE j \in closes : \A k \in closes : j <= k

(* the characters of a string literal, from the one after its opening      *)
(* quote to its closing quote                                              *)
ParseString(s, i) ==
    Apply(LAMBDA close :
              IF \/ close = 0
                 \/ \E k \in i..(close - 1) :
                        \/ s[k] = "\n"
                        \/ Escaped(s, k, i) /\ s[k] \notin {Q, BS, "n"}
              THEN NoParse
              ELSE [ok |-> TRUE,
                    val |-> Str(Apply(LAMBDA ks : [n \in 1..Len(ks) |-> Unescape(s, ks[n], i)],
                                      SelectSeq([n \in 1..(close - i) |-> i + n - 1],
                                                LAMBDA k : s[k] /= BS \/ Escaped(s, k, i)))),
                    pos |-> close + 1],
          StringEnd(s, i))

RECURSIVE ParseNumber(_, _, _)
ParseNumber(s, i, acc) ==
    IF i <= Len(s) /\ s[i] \in Digits
    THEN ParseNumber(s, i + 1, 10 * acc + DigitVal(s[i]))
    ELSE [ok |-> TRUE, val |-> PyInt(acc), pos |-> i]

RECURSIVE ParseValue(_, _), ParseMembers(_, _, _), ParseElements(_, _, _)

ParseValue(s, i0) ==
    Apply(LAMBDA i :
              IF i > Len(s) THEN NoParse
              ELSE IF s[i] = Q THEN ParseString(s, i + 1)
              ELSE IF s[i] \in Digits THEN ParseNumber(s, i, 0)
              ELSE IF s[i] = "true" THEN [ok |-> TRUE, val |-> PyBool(TRUE), pos |-> i + 1]
              ELSE IF s[i] = "false" THEN [ok |-> TRUE, val |-> PyBool(FALSE), pos |-> i + 1]
              ELSE IF s[i] = "null" THEN [ok |-> TRUE, val |-> PyNone, pos |-> i + 1]
              ELSE IF s[i] = "{"
                   THEN Apply(LAMBDA j :
                                  IF j <= Len(s) /\ s[j] = "}"
                                  THEN [ok |-> TRUE, val |-> Dict(<<>>), pos |-> j + 1]
                                  ELSE ParseMembers(s, j, Dict(<<>>)),
                              SkipWs(s, i + 1))
              ELSE IF s[i] = "["
                   THEN Apply(LAMBDA j :
                                  IF j <= Len(s) /\ s[j] = "]"
                                  THEN [ok |-> TRUE, val |-> List(<<>>), pos |-> j + 1]
                                  ELSE ParseElements(s, j, <<>>),
                              SkipWs(s, i + 1))
              ELSE NoParse,
          SkipWs(s, i0))

(* "key": value, then a comma and more members, or the closing brace *)
ParseMembers(s, i, acc) ==
    IF i > Len(s) \/ s[i] /= Q THEN NoParse
    ELSE Apply(LAMBDA key :
                   IF ~key.ok \/ SkipWs(s, key.pos) > Len(s) \/ s[SkipWs(s, key.pos)] /= ":"
                   THEN NoParse
                   ELSE Apply(LAMBDA val :
                                  IF ~val.ok \/ SkipWs(s, val.pos) > Len(s) THEN NoParse
                                  ELSE IF s[SkipWs(s, val.pos)] = "}"
                                  THEN [ok |-> TRUE, val |-> Put(acc, key.val.v, val.val),
                                        pos |-> SkipWs(s, val.pos) + 1]
                                  ELSE IF s[SkipWs(s, val.pos)] = ","
                                  THEN ParseMembers(s, SkipWs(s, SkipWs(s, val.pos) + 1),
                                                    Put(acc, key.val.v, val.val))
                                  ELSE NoParse,
                              ParseValue(s, SkipWs(s, key.pos) + 1)),
               ParseString(s, i + 1))

(* a value, then a comma and more elements, or the closing bracket *)
ParseElements(s, i, acc) ==
    Apply(LAMBDA val :
              IF ~val.ok \/ SkipWs(s, val.pos) > Len(s) THEN NoParse
              ELSE IF s[SkipWs(s, val.pos)] = "]"
              THEN [ok |-> TRUE, val |-> List(Append(acc, val.val)),
                    pos |-> SkipWs(s, val.pos) + 1]
              ELSE IF s[SkipWs(s, val.pos)] = ","
              THEN ParseElements(s, SkipWs(s, val.pos) + 1, Append(acc, val.val))
              ELSE NoParse,
          ParseValue(s, i))

(* json.loads / orjson.loads: one value and nothing but whitespace after it *)
JsonLoads(s) ==
    Apply(LAMBDA r :
              IF r.ok /\ SkipWs(s, r.pos) > Len(s)
              THEN [ok |-> TRUE, val |-> r.val]
              ELSE [ok |-> FALSE, val |-> PyNone],
          Apply(LAMBDA t : ParseValue(t, 1), s))

(* the sequences of a sequence, one after another *)
RECURSIVE Flat(_)
Flat(ss) ==
    IF Len(ss) = 0 THEN <<>>
    ELSE IF Len(ss) = 1 THEN ss[1]
    ELSE Flat(SubSeq(ss, 1, Len(ss) \div 2)) \o Flat(SubSeq(ss, Len(ss) \div 2 + 1, Len(ss)))

EscapeChars(s) ==
    Flat([i \in 1..Len(s) |->
             IF s[i] \in {Q, BS} THEN <<BS, s[i]>>
             ELSE IF s[i] = "\n" THEN <<BS, "n">>
             ELSE <<s[i]>>])

RECURSIVE DigitsOf(_)
DigitsOf(n) == IF n < 10 THEN <<ToString(n)>> ELSE DigitsOf(n \div 10) \o <<ToString(n % 10)>>

(* json.dumps with its default separators ", " and ": " *)
RECURSIVE JsonDumps(_), DumpPairs(_), DumpElems(_)

JsonDumps(x) ==
    CASE x.t = "str" -> <<Q>> \o EscapeChars(x.v) \o <<Q>>
      [] x.t = "int" -> DigitsOf(x.v[1])
      [] x.t = "bool" -> IF x.v[1] THEN <<"true">> ELSE <<"false">>
      [] x.t = "none" -> <<"null">>
      [] x.t = "dict" -> <<"{">> \o DumpPairs(x.v) \o <<"}">>
      [] x.t = "list" -> <<"[">> \o DumpElems(x.v) \o <<"]">>

DumpPairs(ps) ==
    IF ps = <<>> THEN <<>>
    ELSE <<Q>> \o EscapeChars(ps[1][1]) \o <<Q, ":", " ">> \o JsonDumps(ps[1][2])
         \o (IF Len(ps) > 1 THEN <<",", " ">> \o DumpPairs(Tail(ps)) ELSE <<>>)

DumpElems(es) ==
    IF es = <<>> THEN <<>>
    ELSE JsonDumps(es[1])
         \o (IF Len(es) > 1 THEN <<",", " ">> \o DumpElems(Tail(es)) ELSE <<>>)

----------------------------------------------------------------------------
(* ZokoClient (src/zoko_client.py): the gateway to the messaging channel.  *)
(* Every send_* is a synchronous def; it returns [ok, posts]: the bool the *)
(* method returns and the HTTP requests it issued, in order.  net is the   *)
(* outcome of each request the call may issue, chosen by the channel.      *)

HttpOutcomes == {"200", "409new", "500", "timeout"}
Nets == [1..2 -> HttpOutcomes]
QuietNet == [i \in 1..2 |-> "200"]

Post(type, recipient, templateId, content, header, body, http) ==
    [type |-> type, recipient |-> recipient, templateId |-> templateId,
     content |-> content, header |-> header, body |-> body, http |-> http]

(* _validate_phone returns chat_id.lstrip("+") *)
RECURSIVE LStripPlus(_)
LStripPlus(chat) == IF chat /= <<>> /\ chat[1] = "+" THEN LStripPlus(Tail(chat)) ELSE chat

(* s.strip().startswith('{') and s.strip().endswith('}') and json.loads(s) succeeds *)
IsJsonString(s) ==
    LET core == Strip(s)
    IN  /\ core /= <<>>
        /\ core[1] = "{"
        /\ core[Len(core)] = "}"
        /\ JsonLoads(s).ok

(* _validate_no_json_payload: False blocks the send *)
ValidateAllowAllMutant(data) == TRUE

ValidateNoJsonPayload(data) ==
    IF IsDict(data) THEN FALSE
    ELSE IF IsList(data)
         THEN \A i \in 1..Len(data.v) :
                  /\ ~IsDict(data.v[i])
                  /\ ~(IsStr(data.v[i]) /\ IsJsonString(data.v[i].v))
    ELSE IF IsStr(data) THEN ~IsJsonString(data.v)
    ELSE TRUE

(* _validate_template(template_id, "buttonTemplate") *)
ValidateTemplate(template_id) ==
    available_templates = {} \/ template_id \in available_templates

WelcomeTemplate == <<"welcome___product_finder_flow">>
WelcomeArgs ==
    List(<<Str(<<"find_project_payload">>), Str(<<"view_budget_payload">>),
           Str(<<"contact_support_payload">>)>>)

NoSend == [ok |-> FALSE, posts |-> <<>>]

(* send_button_template *)
send_button_template(chat_id, template_id, template_args, net) ==
    IF ~ValidPhone(chat_id) THEN NoSend
    ELSE IF ~ValidateNoJsonPayload(template_args) THEN NoSend
    ELSE IF ~ValidateTemplate(template_id) /\ template_id = WelcomeTemplate THEN NoSend
    ELSE LET swap == ~ValidateTemplate(template_id)
             tid == IF swap THEN WelcomeTemplate ELSE template_id
             args == IF swap THEN WelcomeArgs ELSE template_args
         IN  [ok |-> net[1] = "200",
              posts |-> <<Post("buttonTemplate", LStripPlus(chat_id), tid, args,
                               <<>>, <<>>, net[1])>>]

(* after a 409 "New customer" answer: the welcome template, as its own request *)
WelcomeFallback(chat_id, first, net) ==
    LET fb == send_button_template(chat_id, WelcomeTemplate, WelcomeArgs, Tail(net))
    IN  [ok |-> fb.ok, posts |-> <<first>> \o fb.posts]

(* send_text; text[:50] in its log line raises for a value that has no slice *)
send_text(chat_id, text, net) ==
    IF ~ValidPhone(chat_id) THEN NoSend
    ELSE IF ~ValidateNoJsonPayload(text) THEN NoSend
    ELSE IF ~(IsStr(text) \/ IsList(text)) THEN NoSend
    ELSE LET first == Post("text", LStripPlus(chat_id), <<>>, text, <<>>, <<>>, net[1])
         IN  IF net[1] = "409new" THEN WelcomeFallback(chat_id, first, net)
             ELSE [ok |-> net[1] = "200", posts |-> <<first>>]

(* lines 299-311: at most ten items, a long title cut to 21 characters and "..." *)
FormatItem(item) ==
    LET title == Get(item, <<"title">>, Str(<<"I", "t", "e", "m">>))
    IN  Dict(<< << <<"title">>,
                   IF Len(title.v) > 24
                   THEN Str(SubSeq(title.v, 1, 21) \o <<".", ".", ".">>)
                   ELSE title >>,
                << <<"description">>, Get(item, <<"description">>, Str(<<>>)) >>,
                << <<"payload">>, Get(item, <<"payload">>, Str(<<"default">>)) >> >>)

FormatItems(items) == [i \in 1..Len(Take(items, 10)) |-> FormatItem(items[i])]

(* send_interactive_list(chat_id, header, body, items) *)
send_interactive_list(chat_id, header, body, items, net) ==
    IF ~ValidPhone(chat_id) THEN NoSend
    ELSE IF ~IsList(items) \/ \E i \in 1..Len(Take(items.v, 10)) : ~IsDict(items.v[i])
         THEN NoSend
    ELSE LET first == Post("interactive_list", LStripPlus(chat_id), <<>>,
                           List(FormatItems(items.v)), header, body, net[1])
         IN  IF net[1] = "409new" THEN WelcomeFallback(chat_id, first, net)
             ELSE [ok |-> net[1] = "200", posts |-> <<first>>]

----------------------------------------------------------------------------
(* POST /webhook/zoko (src/main.py:252-355)                                *)

(* A request body: event, platformSenderId, id (0: absent), text (<<>>:    *)
(* absent), direction and interactive.list_reply.id (<<>>: absent).        *)
Body(event, chat, id, text, direction, reply) ==
    [event |-> event, platformSenderId |-> chat, id |-> id, text |-> text,
     direction |-> direction, reply |-> reply]

TextQuery == <<"show me", " ", "villas">>
TextCzech == <<"dobry", " ", "den">>
TextTrouble == <<"I'm having trouble processing your request", ".", " ", "Please try again">>
TextGreeting == <<"Hello! \\U0001f44b", " ", "How can I help">>
TextSorry == <<"Sorry, something went wrong", ".">>
ReplyDigits == <<"4", "2">>

(* the customers' deliveries: a query, a list selection, and a sender whose *)
(* id is not a phone number                                                  *)
UserBody(id) ==
    CASE id % 3 = 1 ->
           Body("message:user:in", GoodChat, id, TextQuery, "FROM_CUSTOMER", <<>>)
      [] id % 3 = 2 ->
           Body("message:user:in", PlusChat, id, <<>>, "FROM_CUSTOMER", ReplyDigits)
      [] OTHER ->
           Body("message:user:in", NameChat, id, TextCzech, "FROM_CUSTOMER", <<>>)

(* deliveries the handler turns away: not a user event, not from the       *)
(* customer, the bot's own texts, a missing field                          *)
OtherBodies ==
    {Body("message:delivered", GoodChat, 1, <<>>, "FROM_STORE", <<>>),
     Body("message:user:in", GoodChat, 1, TextQuery, "FROM_STORE", <<>>),
     Body("message:user:in", GoodChat, 2, TextTrouble, "FROM_CUSTOMER", <<>>),
     Body("message:user:in", GoodChat, 2, TextGreeting, "FROM_CUSTOMER", <<>>),
     Body("message:user:in", GoodChat, 3, <<>>, "FROM_CUSTOMER", <<>>),
     Body("message:user:in", <<>>, 3, TextQuery, "FROM_CUSTOMER", <<>>),
     Body("message:user:in", GoodChat, 0, TextQuery, "FROM_CUSTOMER", <<>>)}

Bodies == {UserBody(id) : id \in MsgIds} \cup OtherBodies

(* line 274: user_text = payload_id or body.get("text") *)
UserText(body) == IF body.reply /= <<>> THEN body.reply ELSE body.text

(* line 285: payload_id if payload_id and str(payload_id).isdigit() else None *)
SelectedProductId(body) ==
    IF body.reply /= <<>> /\ \A i \in 1..Len(body.reply) : body.reply[i] \in Digits
    THEN body.reply
    ELSE <<>>

(* is_english (src/main.py:29-35): mostly ASCII and one of its English     *)
(* words occurs in the text, read here over whole words                    *)
EnglishWords == {"show me", "hello", "hi", "house", "plan", "what", "how"}
IsEnglish(text) == \E i \in 1..Len(text) : text[i] \in EnglishWords

(* lines 277-283: what detect_language may answer, forced to "en" for English; *)
(* a text without letters has no language features and detects as "en"        *)
UserLangs(text) ==
    IF IsEnglish(text) \/ \A i \in 1..Len(text) : text[i] \in Digits
    THEN {"en"}
    ELSE {"en", "cs"}

IsBotNothingMutant(text) == FALSE

(* lines 297-298: the two prefixes of the bot's own texts *)
IsBotText(text) ==
    \/ StartsWith(text, <<"I'm having trouble processing your request">>)
    \/ StartsWith(text, <<"Hello! \\U0001f44b">>)

(* the dict handed to process_zoko_message, lines 340-347 *)
TaskPayload(body, lang) ==
    [platformSenderId |-> body.platformSenderId, text |-> UserText(body),
     message_id |-> body.id, lang |-> lang,
     selected_product_id |-> SelectedProductId(body)]

(* str(x) *)
RECURSIVE PyRepr(_), ReprPairs(_), ReprElems(_)
PyRepr(x) ==
    CASE x.t = "str" -> <<"'">> \o x.v \o <<"'">>
      [] x.t = "int" -> DigitsOf(x.v[1])
      [] x.t = "bool" -> IF x.v[1] THEN <<"True">> ELSE <<"False">>
      [] x.t = "none" -> <<"None">>
      [] x.t = "dict" -> <<"{">> \o ReprPairs(x.v) \o <<"}">>
      [] x.t = "list" -> <<"[">> \o ReprElems(x.v) \o <<"]">>

ReprPairs(ps) ==
    IF ps = <<>> THEN <<>>
    ELSE <<"'">> \o ps[1][1] \o <<"'", ":", " ">> \o PyRepr(ps[1][2])
         \o (IF Len(ps) > 1 THEN <<",", " ">> \o ReprPairs(Tail(ps)) ELSE <<>>)

ReprElems(es) ==
    IF es = <<>> THEN <<>>
    ELSE PyRepr(es[1]) \o (IF Len(es) > 1 THEN <<",", " ">> \o ReprElems(Tail(es)) ELSE <<>>)

PyStr(x) == IF IsStr(x) THEN x.v ELSE PyRepr(x)

(* get_cached_response (src/cache.py): a miss, or a response stored under   *)
(* the key before, of one of the three kinds lines 310-333 tell apart.      *)
(* main.py:421-424 stores the response of a selection.                      *)
CacheMiss == PyNone
CachedText ==
    Dict(<< << <<"whatsapp_type">>, Str(<<"text">>) >>,
            << <<"message">>, Str(<<"I'm here to help!">>) >> >>)
CachedSelection ==
    Dict(<< << <<"success">>, PyBool(TRUE) >>,
            << <<"message">>, Str(<<"Product and variants/related sent.">>) >>,
            << <<"whatsapp_type">>, Str(<<"buttonTemplate">>) >> >>)
(* a list as lines 313-333 read it; its two items lose their place in the  *)
(* filter of line 330, one for its empty title, one for its empty payload  *)
CachedList(items) ==
    Dict(<< << <<"whatsapp_type">>, Str(<<"interactive_list">>) >>,
            << <<"interactiveList">>,
               Dict(<< << <<"body">>, Dict(<< << <<"text">>, Str(<<"Choose">>) >> >>) >>,
                       << <<"list">>,
                          Dict(<< << <<"title">>, Str(<<"Homes">>) >>,
                                  << <<"sections">>,
                                     List(<< Dict(<< << <<"items">>, List(items) >> >>) >>)
                                  >> >>) >> >>) >> >>)
CachedNoTitle ==
    Dict(<< << <<"id">>, Str(<<"1">>) >>, << <<"payload">>, Str(<<"view_1">>) >>,
            << <<"title">>, Str(<<>>) >> >>)
CachedNoPayload ==
    Dict(<< << <<"title">>, Str(<<"Villa", " ", "Nova">>) >>,
            << <<"description">>, Str(<<"A villa">>) >> >>)
CachedVilla ==
    Dict(<< << <<"id">>, Str(<<"2">>) >>, << <<"payload">>, Str(<<"view_2">>) >>,
            << <<"title">>, Str(<<"Villa", " ", "Nova">>) >>,
            << <<"description">>, Str(<<"A villa">>) >> >>)
CachedResponses ==
    {CacheMiss, CachedSelection, CachedText,
     CachedList(<<CachedNoTitle, CachedNoPayload>>),
     CachedList(<<CachedNoTitle, CachedVilla>>)}

(* the two nested loops: every entry of every section, in order *)
RECURSIVE SectionEntries(_, _)
SectionEntries(sections, key) ==
    IF sections = <<>> THEN <<>>
    ELSE Get(sections[1], key, List(<<>>)).v \o SectionEntries(Tail(sections), key)

(* sections a list of dicts whose entries under key are lists of dicts *)
WellFormedSections(sections, key) ==
    /\ IsList(sections)
    /\ \A i \in 1..Len(sections.v) :
           /\ IsDict(sections.v[i])
           /\ IsList(Get(sections.v[i], key, List(<<>>)))
           /\ \A j \in 1..Len(Get(sections.v[i], key, List(<<>>)).v) :
                  IsDict(Get(sections.v[i], key, List(<<>>)).v[j])

(* lines 322-327: one item of the cached list *)
CachedEntry(item) ==
    Dict(<< << <<"id">>, Str(PyStr(Get(item, <<"id">>, Str(<<>>)))) >>,
            << <<"payload">>, Str(PyStr(Get(item, <<"payload">>, Str(<<>>)))) >>,
            << <<"title">>, Str(Take(Get(item, <<"title">>, Str(<<>>)).v, 24)) >>,
            << <<"description">>, Str(Take(Get(item, <<"description">>, Str(<<>>)).v, 50)) >> >>)

(* lines 313-333: the cached interactive list; a part of the wrong type     *)
(* raises where the code reads it, and the list goes out with the items    *)
(* the filter of line 330 left                                             *)
CachedListSend(chat_id, cached, net) ==
    LET interactive == Get(cached, <<"interactiveList">>, PyNone)
        list_obj == Get(interactive, <<"list">>, PyNone)
        sections == Get(list_obj, <<"sections">>, List(<<>>))
        text == Get(interactive, <<"body">>, Dict(<<>>))
        entries == SectionEntries(sections.v, <<"items">>)
    IN  IF ~Truthy(interactive) THEN [status |-> "cached_response", posts |-> <<>>]
        ELSE IF ~IsDict(interactive) THEN [status |-> "error", posts |-> <<>>]
        ELSE IF ~HasKey(interactive, <<"list">>)
        THEN [status |-> "cached_response", posts |-> <<>>]
        ELSE IF \/ ~IsDict(list_obj)
                \/ ~IsDict(text)
                \/ ~WellFormedSections(sections, <<"items">>)
                \/ \E i \in 1..Len(entries) :
                       \/ ~IsStr(Get(entries[i], <<"title">>, Str(<<>>)))
                       \/ ~IsStr(Get(entries[i], <<"description">>, Str(<<>>)))
        THEN [status |-> "error", posts |-> <<>>]
        ELSE [status |-> "error",
              posts |-> send_interactive_list(chat_id,
                            Get(list_obj, <<"title">>, Str(<<"LEVA Houses">>)),
                            Get(text, <<"text">>, Str(<<"Choose an option:">>)),
                            List(SelectSeq([i \in 1..Len(entries) |-> CachedEntry(entries[i])],
                                           LAMBDA e : /\ Truthy(Get(e, <<"title">>, PyNone))
                                                      /\ Truthy(Get(e, <<"payload">>, PyNone)))),
                            net).posts]


(* lines 306-337: the cached response is sent; awaiting the bool a send_*   *)
(* returns raises TypeError after the request has gone out, and a cached    *)
(* buttonTemplate without "template_id" raises KeyError before any request  *)
CachedSend(chat_id, cached, net) ==
    LET type == Get(cached, <<"whatsapp_type">>, PyNone)
    IN  IF type = Str(<<"text">>)
        THEN [status |-> "error",
              posts |-> send_text(chat_id,
                           Get(cached, <<"message">>, Str(<<"I'm here to help!">>)),
                           net).posts]
        ELSE IF type = Str(<<"buttonTemplate">>)
        THEN IF HasKey(cached, <<"template_id">>) /\ HasKey(cached, <<"template_args">>)
             THEN [status |-> "error",
                   posts |-> send_button_template(chat_id,
                                Get(cached, <<"template_id">>, PyNone).v,
                                Get(cached, <<"template_args">>, PyNone), net).posts]
             ELSE [status |-> "error", posts |-> <<>>]
        ELSE IF type = Str(<<"interactive_list">>)
        THEN CachedListSend(chat_id, cached, net)
        ELSE [status |-> "cached_response", posts |-> <<>>]

NoTask == <<>>

(* line 296: body.get("direction") != "FROM_CUSTOMER" skips the delivery *)
FromAnyoneMutant(body) == TRUE

FromCustomer(body) == body.direction = "FROM_CUSTOMER"

(* The handler from the parsed body to its return: the status it answers,   *)
(* the store it leaves, what is_duplicate returned ("not called" when the   *)
(* or-chain of lines 296-299 was decided before it), the task it added and  *)
(* the requests it issued.                                                  *)
Webhook(body, store, t, cached, lang, net) ==
    LET quiet == [status |-> "skipped", store |-> store, dup |-> "not called",
                  task |-> NoTask, posts |-> <<>>]
    IN  IF body.event /= "message:user:in" THEN quiet
        ELSE IF body.platformSenderId = <<>> \/ UserText(body) = <<>> \/ body.id = 0
             THEN [quiet EXCEPT !.status = "error"]
        ELSE IF ~FromCustomer(body) \/ IsBotText(UserText(body)) THEN quiet
        ELSE LET d == IsDuplicate(store, body.id, t)
             IN  IF d.dup
                 THEN [quiet EXCEPT !.store = d.store, !.dup = "True"]
                 ELSE IF Truthy(cached)
                      THEN LET c == CachedSend(body.platformSenderId, cached, net)
                           IN  [status |-> c.status, store |-> d.store, dup |-> "False",
                                task |-> NoTask, posts |-> c.posts]
                      ELSE [status |-> "accepted", store |-> d.store, dup |-> "False",
                            task |-> <<TaskPayload(body, lang)>>, posts |-> <<>>]

----------------------------------------------------------------------------
(* fully_parse_json (src/openai_agent.py:330-346)                           *)

(* three backquotes followed by json, and three backquotes alone *)
FenceOpen == "<fence>json"
FenceClose == "<fence>"
AssistantPrefixes == {"assistant:", "Assistant:", "ASSISTANT:"}

(* obj.lower().startswith("assistant:"): the prefix is cut, the rest stripped *)
DropAssistant(s) ==
    IF s /= <<>> /\ s[1] \in AssistantPrefixes THEN Strip(Tail(s)) ELSE s

(* a token at which the closing fence matches: the fence, or the start of an *)
(* opening one                                                              *)
IsFence(s, i) == i <= Len(s) /\ s[i] \in {FenceClose, FenceOpen}

(* the match of <fence>json\s*(\{.*\})\s*<fence> that starts at position i,     *)
(* .* greedy:                                                                  *)
(* group 1 runs from the first brace to the last one that a fence follows      *)
FenceEnds(s, i) ==
    LET j == SkipWs(s, i + 1)
    IN  IF s[i] = FenceOpen /\ j <= Len(s) /\ s[j] = "{"
        THEN {k \in (j + 1)..Len(s) : s[k] = "}" /\ IsFence(s, SkipWs(s, k + 1))}
        ELSE {}

(* re.search(...): the leftmost start that matches; group(1).strip() *)
CodeBlock(s) ==
    LET starts == {i \in 1..Len(s) : FenceEnds(s, i) /= {}}
    IN  IF starts = {} THEN [found |-> FALSE, group |-> <<>>]
        ELSE LET i == CHOOSE x \in starts : \A y \in starts : x <= y
             IN  [found |-> TRUE,
                  group |-> Strip(SubSeq(s, SkipWs(s, i + 1), Max(FenceEnds(s, i))))]

(* one pass of the while loop over a str: the value it leaves and whether  *)
(* the loop goes on (orjson.loads succeeded)                               *)
UnwrapIgnoreFenceMutant(text) ==
    LET r == JsonLoads(DropAssistant(Strip(text)))
    IN  IF r.ok THEN [obj |-> r.val, again |-> TRUE]
        ELSE [obj |-> Str(DropAssistant(Strip(text))), again |-> FALSE]

UnwrapKeepMutant(text) == [obj |-> Str(text), again |-> TRUE]

Unwrap(text) ==
    LET bare == DropAssistant(Strip(text))
        block == CodeBlock(bare)
        core == IF block.found THEN block.group ELSE bare
        r == JsonLoads(core)
    IN  IF r.ok THEN [obj |-> r.val, again |-> TRUE]
        ELSE [obj |-> Str(core), again |-> FALSE]

(* while isinstance(obj, str): ...; a parsed str is shorter than its source *)
RECURSIVE fully_parse_json(_)
fully_parse_json(obj) ==
    IF ~IsStr(obj) THEN obj
    ELSE LET u == Unwrap(obj.v)
         IN  IF u.again THEN fully_parse_json(u.obj) ELSE u.obj

----------------------------------------------------------------------------
(* Normalization of the agent's answer (src/openai_agent.py:246-328)        *)

(* an exception raised inside an operator's code, for the caller's except *)
Raised == [t |-> "raise", v |-> <<>>]

(* re.sub(r'<[^>]+>', '', text): a "<", one or more other characters, a ">" *)
RECURSIVE StripTags(_)
StripTags(s) ==
    IF s = <<>> THEN <<>>
    ELSE LET closes == {j \in 3..Len(s) : s[j] = ">" /\ \A k \in 2..(j - 1) : s[k] /= ">"}
         IN  IF s[1] = "<" /\ closes /= {}
             THEN StripTags(SubSeq(s, Max(closes) + 1, Len(s)))
             ELSE <<s[1]>> \o StripTags(Tail(s))

(* re.sub(r'\s+', ' ', text) *)
RECURSIVE SquashSpaces(_)
SquashSpaces(s) ==
    IF s = <<>> THEN <<>>
    ELSE IF s[1] \in Whitespace
         THEN <<" ">> \o SquashSpaces(LStrip(s))
         ELSE <<s[1]>> \o SquashSpaces(Tail(s))

(* clean_text(text, maxlen), lines 249-252 *)
CleanNoLimitMutant(text, maxlen) == Str(Strip(SquashSpaces(StripTags(PyStr(text)))))

clean_text(text, maxlen) == Str(Take(Strip(SquashSpaces(StripTags(PyStr(text)))), maxlen))

TypeOf(d) == Get(d, <<"whatsapp_type">>, PyNone)

(* lines 266-273: one item of interactiveList.list.sections[].items *)
ListItem(item) ==
    Dict(<< << <<"id">>, Str(PyStr(Get(item, <<"payload">>, Str(<<>>)))) >>,
            << <<"payload">>, Str(PyStr(Get(item, <<"payload">>, Str(<<>>)))) >>,
            << <<"title">>, clean_text(Get(item, <<"title">>, Str(<<>>)), 24) >>,
            << <<"description">>, clean_text(Get(item, <<"description">>, Str(<<>>)), 72) >> >>)

(* lines 286-290: one row of sections[].rows *)
RowItem(row) ==
    Dict(<< << <<"title">>, clean_text(Get(row, <<"title">>, Str(<<>>)), 24) >>,
            << <<"description">>, clean_text(Get(row, <<"description">>, Str(<<>>)), 72) >>,
            << <<"payload">>, Str(PyStr(Get(row, <<"id">>, Str(<<>>)))) >> >>)

FlatList(header, body, items) ==
    Dict(<< << <<"whatsapp_type">>, Str(<<"interactive_list">>) >>,
            << <<"header">>, header >>,
            << <<"body">>, body >>,
            << <<"items">>, List(items) >> >>)

LevaProperties == Str(<<"LEVA Properties">>)
ChooseProperty == Str(<<"Choose a property:">>)

(* normalize_interactive_list, for a dict whose whatsapp_type is interactive_list *)
normalize_interactive_list(response) ==
    IF HasKey(response, <<"header">>) /\ HasKey(response, <<"body">>)
       /\ HasKey(response, <<"items">>)
    THEN response
    ELSE LET interactive == Get(response, <<"interactiveList">>, PyNone)
             nested == HasKey(response, <<"interactiveList">>)
         IN  IF nested /\ ~IsDict(interactive) THEN Raised
             ELSE IF nested /\ HasKey(interactive, <<"list">>)
             THEN LET list_obj == Get(interactive, <<"list">>, PyNone)
                      sections == IF IsDict(list_obj)
                                  THEN Get(list_obj, <<"sections">>, List(<<>>))
                                  ELSE PyNone
                      body == Get(interactive, <<"body">>, Dict(<<>>))
                  IN  IF ~IsDict(list_obj) \/ ~IsDict(body)
                         \/ ~WellFormedSections(sections, <<"items">>)
                      THEN Raised
                      ELSE FlatList(
                             Get(list_obj, <<"title">>, LevaProperties),
                             Get(body, <<"text">>, ChooseProperty),
                             [i \in 1..Len(SectionEntries(sections.v, <<"items">>)) |->
                                 ListItem(SectionEntries(sections.v, <<"items">>)[i])])
             ELSE IF HasKey(response, <<"sections">>)
             THEN LET sections == Get(response, <<"sections">>, PyNone)
                  IN  IF ~WellFormedSections(sections, <<"rows">>) THEN Raised
                      ELSE FlatList(
                             Get(response, <<"title">>, LevaProperties),
                             Get(response, <<"body">>, ChooseProperty),
                             [i \in 1..Len(SectionEntries(sections.v, <<"rows">>)) |->
                                 RowItem(SectionEntries(sections.v, <<"rows">>)[i])])
             ELSE FlatList(Get(response, <<"title">>, LevaProperties),
                           Get(response, <<"body">>, ChooseProperty), <<>>)

UpsellTemplate == <<"zoko_upsell_product_01">>

(* normalize_button_template, for a dict whose whatsapp_type is buttonTemplate *)
normalize_button_template(response) == Put(response, <<"template_id">>, Str(UpsellTemplate))

----------------------------------------------------------------------------
(* chat_with_agent_enhanced (src/openai_agent.py:383-524)                   *)

TextReply(message) ==
    Dict(<<KV("whatsapp_type", Str(<<"text">>)), KV("message", Str(message))>>)

TroubleText == <<"I'm having trouble processing your request", " ", "right now. Please try again.">>
HelpText == <<"I'm here to help with Leva's homes, pools, and spas. Please ask about our offerings!">>

(* the keys of tool_func_map, line 441 *)
ToolCodes == {<<"search_products_with_handoff">>, <<"search_one_product_with_handoff">>}

RunUnresolvedMutant(response_data) == response_data
RunUncaughtMutant(response_data) == Raised

(* lines 433-463: the answer is a tool plan.  lang is put into tool_args,  *)
(* and both functions of tool_func_map take query alone, so the call of    *)
(* line 449 raises TypeError before the function runs.                     *)
RunToolPlan(response_data) ==
    IF ~IsDict(Get(response_data, <<"tool_args">>, Dict(<<>>))) THEN Raised
    ELSE IF ~IsStr(Get(response_data, <<"tool_code">>, PyNone))
    THEN (IF Get(response_data, <<"tool_code">>, PyNone).t \in {"dict", "list"} THEN Raised
          ELSE TextReply(<<"Sorry, I couldn't process your request (unknown tool).">>))
    ELSE IF Get(response_data, <<"tool_code">>, PyNone).v \in ToolCodes
    THEN TextReply(<<"Sorry, there was an error running the tool:", " ">>
                   \o Get(response_data, <<"tool_code">>, PyNone).v \o <<".">>)
    ELSE TextReply(<<"Sorry, I couldn't process your request (unknown tool).">>)

(* line 433: the answer is a tool-call plan *)
IsToolPlan(response_data) == IsDict(response_data) /\ HasKey(response_data, <<"tool_code">>)

(* lines 397-402: lang is "en" unless it is "cs" and the message is not   *)
(* English                                                                 *)
AgentLang(user_message, lang) ==
    IF lang \notin {"en", "cs"} \/ IsEnglish(user_message) THEN "en" ELSE lang

(* lines 436-438: the keyword arguments of the tool call, tool_args of the *)
(* plan (an empty dict when the plan has none) with lang put into it       *)
ToolArgs(response_data, lang) ==
    Put(Get(response_data, <<"tool_args">>, Dict(<<>>)), <<"lang">>, Str(<<lang>>))

(* line 449 is reached: tool_args took the key and tool_code names a       *)
(* function of the map                                                     *)
CallsTool(response_data) ==
    /\ IsToolPlan(response_data)
    /\ IsDict(Get(response_data, <<"tool_args">>, Dict(<<>>)))
    /\ IsStr(Get(response_data, <<"tool_code">>, PyNone))
    /\ Get(response_data, <<"tool_code">>, PyNone).v \in ToolCodes

(* lines 469-481 for one value of the answer: the message nested in it,    *)
(* normalized, or None when there is none                                  *)
NestedMessage(v) ==
    Apply(LAMBDA inner :
              IF ~IsDict(inner) THEN PyNone
              ELSE IF TypeOf(inner) = Str(<<"interactive_list">>)
              THEN normalize_interactive_list(inner)
              ELSE IF TypeOf(inner) = Str(<<"buttonTemplate">>)
              THEN normalize_button_template(inner)
              ELSE PyNone,
          IF IsList(v) /\ v.v /= <<>> THEN v.v[1] ELSE v)

(* lines 466-488: the first nested message, else the answer itself, normalized *)
NormalizeAnswer(response_data) ==
    LET hits == {i \in 1..Len(response_data.v) : NestedMessage(response_data.v[i][2]) /= PyNone}
    IN  IF hits /= {}
        THEN NestedMessage(response_data.v[CHOOSE i \in hits : \A j \in hits : i <= j][2])
        ELSE IF TypeOf(response_data) = Str(<<"buttonTemplate">>)
        THEN normalize_button_template(response_data)
        ELSE IF TypeOf(response_data) = Str(<<"interactive_list">>)
        THEN normalize_interactive_list(response_data)
        ELSE response_data

(* lines 509-515: an exception of the parsing is answered with the help text *)
CatchParsing(answer) == IF answer = Raised THEN TextReply(HelpText) ELSE answer

(* lines 427-515: the final output of the run, parsed and normalized *)
ParseAgentOutput(final_output) ==
    Apply(LAMBDA answer : CatchParsing(answer),
          Apply(LAMBDA response_data :
                    IF IsToolPlan(response_data)
                    THEN RunToolPlan(response_data)
                    ELSE IF IsDict(response_data) THEN NormalizeAnswer(response_data)
                    ELSE Dict(<<KV("success", PyBool(TRUE)),
                                KV("message", Str(PyStr(response_data))),
                                KV("whatsapp_type", Str(<<"text">>))>>),
                fully_parse_json(Str(Strip(final_output)))))

(* chat_with_agent_enhanced; run is what Runner.run does with the context: *)
(* it raises, or it ends with a final output                               *)
chat_with_agent_enhanced(user_message, run) ==
    IF \/ StartsWith(user_message, <<"I'm having trouble processing your request">>)
       \/ StartsWith(user_message, <<"Sorry, something went wrong">>)
    THEN Dict(<<KV("success", PyBool(FALSE)),
                KV("message", Str(<<"Loop detected, skipping response">>)),
                KV("whatsapp_type", Str(<<"text">>)), KV("skip_response", PyBool(TRUE))>>)
    ELSE IF run.raised
    THEN Dict(<<KV("success", PyBool(FALSE)), KV("message", Str(TroubleText)),
                KV("whatsapp_type", Str(<<"text">>))>>)
    ELSE ParseAgentOutput(run.final_output)

----------------------------------------------------------------------------
(* ProductLoader (src/product_loader.py)                                    *)

(* one row of the export; the DataFrame gives every row every column, ''   *)
(* where the export has none                                               *)
Row(title, handle, body, body_html, image, price, published, status) ==
    Dict(<< << <<"Title">>, Str(title) >>,
            << <<"Handle">>, Str(handle) >>,
            << <<"Body (HTML)">>, Str(body) >>,
            << <<"body_html">>, Str(body_html) >>,
            << <<"Image Src">>, Str(image) >>,
            << <<"Variant Price">>, Str(price) >>,
            << <<"Published">>, Str(published) >>,
            << <<"Status">>, Str(status) >> >>)

RowVilla ==
    Row(<<"Villa", " ", "Nova">>, <<"villa-nova">>, <<"A villa with a pool">>, <<>>,
        <<"https://cdn/villa.png">>, <<"1", "0">>, <<"true">>, <<"active">>)
RowPool ==
    Row(<<"Pool", " ", "Blue">>, <<"pool-blue">>, <<>>, <<"<", "p", ">", "Pool", "<", "/", "p", ">">>,
        <<>>, <<"Contact">>, <<" ", "TRUE">>, <<>>)
RowSpa ==
    Row(<<"Spa", " ", "Zen">>, <<>>, <<>>, <<>>, <<>>, <<>>, <<"yes">>, <<"Published">>)
RowDeck ==
    Row(<<"Pitch Deck">>, <<"pitch-deck">>, <<"Slides">>, <<>>, <<"https://cdn/deck.png">>,
        <<>>, <<"true">>, <<"active">>)
RowDraft ==
    Row(<<"Oryx", " ", "House">>, <<"oryx-house">>, <<"A house">>, <<>>, <<>>, <<"5">>,
        <<"true">>, <<"draft">>)
RowHidden ==
    Row(<<"Lynx", " ", "Cabin">>, <<"lynx-cabin">>, <<"A cabin">>, <<>>, <<>>, <<"7">>,
        <<"false">>, <<"active">>)

(* a row of an export that has no availability column *)
RowBare == Dict(<< << <<"Title">>, Str(<<"Rana">>) >>, << <<"Status">>, Str(<<"active">>) >> >>)

(* str.lower() on the tokens of this model *)
LowerTok(c) ==
    CASE c = "Villa" -> "villa" [] c = "Nova" -> "nova" [] c = "Pool" -> "pool"
      [] c = "Blue" -> "blue" [] c = "Spa" -> "spa" [] c = "Zen" -> "zen"
      [] c = "Pitch Deck" -> "pitch deck" [] c = "Oryx" -> "oryx" [] c = "House" -> "house"
      [] c = "Lynx" -> "lynx" [] c = "Cabin" -> "cabin" [] c = "Rana" -> "rana"
      [] c = "TRUE" -> "true" [] c = "Published" -> "published"
      [] OTHER -> c

Lower(s) == [i \in 1..Len(s) |-> LowerTok(s[i])]

SuspiciousTitles ==
    {<<"morgan freeman">>, <<"john wood">>, <<"pitch deck">>, <<"by leva">>, <<>>}

(* lines 42-45: rows whose Title, stripped and lowered, is suspicious or blank go *)
KeepTitle(row) == Lower(Strip(Get(row, <<"Title">>, Str(<<>>)).v)) \notin SuspiciousTitles

(* lines 59-64: the availability and the status masks *)
IsAvailable(row) ==
    Lower(Strip(Get(row, <<"Published">>, Str(<<>>)).v)) \in {<<"true">>, <<"yes">>, <<"1">>}

IsActive(row) ==
    Lower(Strip(Get(row, <<"Status">>, Str(<<>>)).v))
        \in {<<"active">>, <<"published">>, <<"available">>, <<>>}

KeepListed(row) == IsAvailable(row) /\ IsActive(row)

(* lines 51-56: the export names an availability and a status column *)
HasColumns(rows) ==
    \E i \in 1..Len(rows) : HasKey(rows[i], <<"Published">>) /\ HasKey(rows[i], <<"Status">>)

(* the export on disk: its rows, when the file exists *)
File(rows) == [exists |-> TRUE, rows |-> rows]
MissingFile == [exists |-> FALSE, rows |-> <<>>]

(* _load_products: df is assigned before the columns are checked (line 39), *)
(* the texts and embeddings only after (lines 67-75)                        *)
LoadProducts(file, old) ==
    IF ~file.exists THEN [raised |-> TRUE, loader |-> old]
    ELSE IF ~HasColumns(file.rows)
         THEN [raised |-> TRUE,
               loader |-> [df |-> SelectSeq(file.rows, KeepTitle), indexed |-> old.indexed]]
    ELSE LET df == SelectSeq(SelectSeq(file.rows, KeepTitle), KeepListed)
         IN  [raised |-> FALSE, loader |-> [df |-> df, indexed |-> df]]

(* x or y or ... over dict entries: the first truthy value, else the last *)
FirstTruthy(d, keys, default) ==
    LET hits == {i \in 1..Len(keys) : Truthy(Get(d, keys[i], PyNone))}
    IN  IF hits = {} THEN default
        ELSE Get(d, keys[CHOOSE i \in hits : \A j \in hits : i <= j], PyNone)

(* is_complete_product *)
is_complete_product(product) ==
    /\ Truthy(FirstTruthy(product, << <<"image_url">>, <<"Image Src">>, <<"image">> >>, PyNone))
    /\ Truthy(FirstTruthy(product, << <<"description">>, <<"Body (HTML)">>, <<"body_html">> >>,
                          PyNone))
    /\ Truthy(FirstTruthy(product, << <<"url">>, <<"Handle">>, <<"handle">>, <<"id">> >>, PyNone))

IsNumber(s) == s /= <<>> /\ \A i \in 1..Len(s) : s[i] \in Digits

(* lines 111-123: the price, when it parses as a float (lang is en or cs) *)
LocalizePrice(product, lang) ==
    LET price == FirstTruthy(product, << <<"Variant Price">>, <<"price">> >>, PyNone)
    IN  IF Truthy(price) /\ IsStr(price) /\ IsNumber(price.v)
        THEN Put(product, <<"price">>,
                 IF lang = "en" THEN Str(<<"$">> \o price.v \o <<".", "0">>)
                 ELSE Str(price.v \o <<".", "0", " ", "USD">>))
        ELSE product

(* lines 124-132: the description, translated for another language; tr is *)
(* what the translator does: "ok", "empty" (it returns '') or "fails"     *)
LocalizeDescription(product, lang, tr) ==
    LET desc == FirstTruthy(product, << <<"Body (HTML)">>, <<"description">> >>, Str(<<>>))
    IN  Put(product, <<"description">>,
            IF Truthy(desc) /\ lang /= "en"
            THEN (CASE tr = "ok" -> Str(<<"cs:">> \o desc.v)
                    [] tr = "empty" -> Str(<<>>)
                    [] OTHER -> desc)
            ELSE desc)

FallbackImage == Str(<<"https://images.unsplash.com/photo-1564013799919-ab600027ffc6?w=400">>)

(* lines 146-147: a product without a description is described by its name *)
DescriptionNoFallbackMutant(p) == p

DescriptionFallback(p) ==
    IF Truthy(Get(p, <<"description">>, PyNone)) THEN p
    ELSE Put(p, <<"description">>,
             Str(<<"Order", " ">>
                 \o (IF Truthy(Get(p, <<"name">>, PyNone)) THEN Get(p, <<"name">>, PyNone).v
                     ELSE <<"Product">>)))

(* lines 135-144: name, id and image_url *)
LocalizeNames(p) ==
    Put(Put(Put(p, <<"name">>, Get(p, <<"Title">>, Get(p, <<"name">>, Str(<<>>)))),
            <<"id">>, Get(p, <<"Handle">>, Get(p, <<"id">>, Str(<<>>)))),
        <<"image_url">>,
        FirstTruthy(p, << <<"image_url">>, <<"Image Src">>, <<"image">> >>, FallbackImage))

(* lines 149-152: the url, from the handle or the id when there is one *)
LocalizeUrl(p) ==
    Put(p, <<"url">>,
        IF Truthy(Get(p, <<"url">>, PyNone)) THEN Get(p, <<"url">>, PyNone)
        ELSE IF Truthy(FirstTruthy(p, << <<"Handle">>, <<"handle">>, <<"id">> >>, PyNone))
             THEN Str(<<"https://www.theleva.com/products/">>
                      \o FirstTruthy(p, << <<"Handle">>, <<"handle">>, <<"id">> >>, PyNone).v)
             ELSE Str(<<"https://www.theleva.com/">>))

(* _localize_product: the assignments of lines 110-152, one after another *)
_localize_product(product, lang, tr) ==
    Apply(LocalizeUrl,
      Apply(DescriptionFallback,
        Apply(LocalizeNames,
          Apply(LAMBDA p : LocalizeDescription(p, lang, tr),
            Apply(LAMBDA p : LocalizePrice(p, lang), product)))))

(* str.split(): the words of a string *)
Words(s) == SelectSeq(s, LAMBDA c : c \notin Whitespace)

(* lines 99-102: every word of the query occurs in the lowered title *)
match_partial(row, q) ==
    LET name == Lower(FirstTruthy(row, << <<"Title">>, <<"name">> >>, Str(<<>>)).v)
    IN  \A i \in 1..Len(Words(Lower(q))) :
            \E j \in 1..Len(name) : name[j] = Words(Lower(q))[i]

(* the similarity threshold of line 96, in tenths; the scores are in tenths too *)
threshold == 3
Scores == {1, 5}

(* np.argsort(-cos_scores): the indices by descending score, ties in any order *)
IsArgsort(order, cos_scores) ==
    /\ Len(order) = Len(cos_scores)
    /\ \A i \in 1..Len(cos_scores) : \E j \in 1..Len(order) : order[j] = i
    /\ \A i, j \in 1..Len(order) : i < j => cos_scores[order[i]] >= cos_scores[order[j]]

(* search, lines 79-107, once the catalog is reloaded: the best            *)
(* max_results * 2 rows are localized and the complete ones returned       *)
SearchLoaded(df, query, lang, max_results, top, tr) ==
    LET top_idx == Take(top, max_results * 2)
        complete ==
            SelectSeq([i \in 1..Len(top_idx) |-> _localize_product(df[top_idx[i]], lang, tr)],
                      is_complete_product)
        fuzzy_matches ==
            SelectSeq([i \in 1..Len(df) |-> _localize_product(df[i], lang, tr)],
                      LAMBDA p : match_partial(p, Strip(query)) /\ is_complete_product(p))
    IN  IF df = <<>> THEN <<>>
        ELSE Apply(LAMBDA results :
                       IF results = <<>> THEN Take(fuzzy_matches, max_results) ELSE results,
                   Take(complete, max_results))

(* search without line 78: the table loaded earlier is searched as long as *)
(* there is one                                                            *)
searchCachedMutant(old, file, query, lang, max_results, top, tr) ==
    IF old.df = <<>>
    THEN Apply(LAMBDA ld :
                   [raised |-> ld.raised, loader |-> ld.loader,
                    results |-> IF ld.raised THEN <<>>
                                ELSE SearchLoaded(ld.loader.df, query, lang, max_results, top, tr)],
               LoadProducts(file, old))
    ELSE [raised |-> FALSE, loader |-> old,
          results |-> SearchLoaded(old.df, query, lang, max_results,
                                   SelectSeq(top, LAMBDA i : i <= Len(old.df)), tr)]

(* search, lines 77-107 *)
search(old, file, query, lang, max_results, top, tr) ==
    Apply(LAMBDA ld :
              [raised |-> ld.raised, loader |-> ld.loader,
               results |-> IF ld.raised THEN <<>>
                           ELSE SearchLoaded(ld.loader.df, query, lang, max_results, top, tr)],
          LoadProducts(file, old))

----------------------------------------------------------------------------
(* The message builders (src/tools.py, src/handoff_tools.py)                *)

(* a product as ProductDatabase._format_for_whatsapp returns it (the keys  *)
(* the builders read)                                                      *)
Product(id, title, price, product_type, image_url) ==
    Dict(<<KV("id", Str(id)), KV("title", Str(title)), KV("price", Str(price)),
           KV("product_type", Str(product_type)), KV("image_url", Str(image_url))>>)

ProdVilla == Product(<<"v1">>, <<"Villa Nova">>, <<"1", "0">>, <<"villa">>, <<"https://cdn/villa.png">>)
ProdPool == Product(<<"p2">>, <<"Pool Blue">>, <<"Contact for price">>, <<>>, <<"https://cdn/pool.png">>)
ProdLong == Product(<<"v1">>, Rep("x", 22), <<"7">>, <<"house">>, <<"https://cdn/long.png">>)

FoundMessage(n, query, end) ==
    Str(<<"Found", " ">> \o DigitsOf(n) \o <<" ", "products matching '">> \o query \o end)

(* tools.py lines 189-198 and 295-303: the template of one product *)
ButtonData(product, payload) ==
    Dict(<<KV("template_id", Str(UpsellTemplate)),
           KV("template_args",
              List(<<Get(product, <<"image_url">>, PyNone), Get(product, <<"title">>, PyNone),
                     Str(<<"PROD-">> \o PyStr(Get(product, <<"id">>, PyNone))),
                     Str(payload)>>))>>)

(* tools.py lines 203-209: the item of one product of a list *)
ProductItem(product) ==
    Dict(<<KV("title", Str(Take(Get(product, <<"title">>, PyNone).v, 20))),
           KV("description", Str(PyStr(Get(product, <<"price">>, PyNone)) \o <<" ", "-", " ">>
                                 \o PyStr(Get(product, <<"product_type">>, PyNone)))),
           KV("payload", Str(<<"view_">> \o PyStr(Get(product, <<"id">>, PyNone))))>>)

(* tools.py lines 211-218 and 259-266: the template of a list *)
ListData(header, body, products) ==
    Dict(<<KV("template_id", Str(<<"property_list_interactive">>)),
           KV("template_args",
              List(<<Str(header), Str(body),
                     Str(JsonDumps(List([i \in 1..Len(products) |-> ProductItem(products[i])])))>>))>>)

NoProducts(success, message, more) ==
    Dict(<<KV("success", PyBool(success)), KV("message", Str(message)),
           KV("products", List(<<>>)), KV("count", PyInt(0))>> \o more
         \o <<KV("handoff_required", PyBool(FALSE))>>)

(* search_database_func, lines 149-334; products is what ProductDatabase   *)
(* answers the call it makes, every product with every key                 *)
search_database_func(action, query, property_id, products) ==
    Str(JsonDumps(
        CASE action = "search" ->
               IF Strip(query) = <<>>
               THEN NoProducts(FALSE, <<"Please provide a search query">>, <<>>)
               ELSE IF products = <<>>
               THEN NoProducts(TRUE,
                               <<"No products found matching '">> \o query
                                   \o <<"'. Try different keywords or browse all products.">>,
                               <<KV("suggestions",
                                    List(<<Str(<<"electronics">>), Str(<<"clothing">>),
                                           Str(<<"accessories">>), Str(<<"home">>),
                                           Str(<<"gaming">>)>>))>>)
               ELSE Dict(<<KV("success", PyBool(TRUE)),
                           KV("message", FoundMessage(Len(products), query, <<"'">>)),
                           KV("products", List(products)),
                           KV("count", PyInt(Len(products))),
                           KV("template",
                              IF Len(products) = 1
                              THEN ButtonData(products[1], <<"view_details_payload">>)
                              ELSE ListData(<<"Available Products">>,
                                            FoundMessage(Len(products), query, <<"'">>).v,
                                            Take(products, 10))),
                           KV("whatsapp_type",
                              Str(IF Len(products) = 1 THEN <<"buttonTemplate">>
                                  ELSE <<"interactive_list">>)),
                           KV("handoff_required", PyBool(FALSE))>>)
          [] action = "browse_all" ->
               IF products = <<>>
               THEN NoProducts(TRUE,
                               <<"No products available at the moment. Please check back later.">>,
                               <<>>)
               ELSE Dict(<<KV("success", PyBool(TRUE)),
                           KV("message", Str(<<"Here are all", " ">> \o DigitsOf(Len(products))
                                             \o <<" ", "available products:">>)),
                           KV("products", List(products)),
                           KV("count", PyInt(Len(products))),
                           KV("template",
                              ListData(<<"All Available Products">>,
                                       <<"Browse our", " ">> \o DigitsOf(Len(products))
                                           \o <<" ", "products">>,
                                       products)),
                           KV("whatsapp_type", Str(<<"interactive_list">>)),
                           KV("handoff_required", PyBool(FALSE))>>)
          [] action = "get_details" ->
               IF Strip(property_id) = <<>>
               THEN Dict(<<KV("success", PyBool(FALSE)),
                           KV("message", Str(<<"Please provide a product ID">>)),
                           KV("product", PyNone), KV("handoff_required", PyBool(FALSE))>>)
               ELSE IF products = <<>>
               THEN Dict(<<KV("success", PyBool(FALSE)),
                           KV("message", Str(<<"Product with ID '">> \o property_id
                                             \o <<"' not found">>)),
                           KV("product", PyNone), KV("handoff_required", PyBool(TRUE)),
                           KV("handoff_reason",
                              Str(<<"Product not found - may need human assistance">>))>>)
               ELSE Dict(<<KV("success", PyBool(TRUE)),
                           KV("message", Str(<<"Here are the details for", " ">>
                                             \o Get(products[1], <<"title">>, PyNone).v
                                             \o <<":">>)),
                           KV("product", products[1]),
                           KV("template", ButtonData(products[1], <<"contact_agent_payload">>)),
                           KV("whatsapp_type", Str(<<"buttonTemplate">>)),
                           KV("handoff_required", PyBool(FALSE))>>)
          [] OTHER ->
               NoProducts(FALSE,
                          <<"Invalid action '">> \o <<action>>
                              \o <<"'. Use 'search', 'browse_all', or 'get_details'">>,
                          <<>>)))

(* a suggestion of zoko_utils.get_template_suggestions *)
Suggestion(templateId, variables) ==
    Dict(<<KV("templateId", Str(templateId)), KV("variables", PyInt(variables))>>)

SuggestionLists ==
    {<<>>, <<Suggestion(WelcomeTemplate, 1), Suggestion(UpsellTemplate, 4)>>,
     <<Suggestion(WelcomeTemplate, 1)>>}

(* handoff_tools.py line 127: the first suggestion with 4 variables, else  *)
(* the first                                                               *)
PickTemplate(suggestions) ==
    LET four == {i \in 1..Len(suggestions) :
                    Get(suggestions[i], <<"variables">>, PyNone) = PyInt(4)}
    IN  IF four = {} THEN suggestions[1]
        ELSE suggestions[CHOOSE i \in four : \A j \in four : i <= j]

(* handoff_tools.py lines 128-139: the card of one product *)
ProductCard(product, suggestions) ==
    Dict(<<KV("template_id", Get(PickTemplate(suggestions), <<"templateId">>, PyNone)),
           KV("template_args",
              List(<<Get(product, <<"image_url">>,
                         Str(<<"https://via.placeholder.com/400x300?text=Product">>)),
                     Get(product, <<"title">>, Str(<<"Product">>)),
                     Str(<<"PROD-">> \o PyStr(Get(product, <<"id">>, Str(<<"unknown">>)))),
                     Str(<<"view_details_">>
                         \o PyStr(Get(product, <<"id">>, Str(<<"unknown">>))))>>)),
           KV("product", product)>>)

HandoffInfo(more) ==
    KV("handoff_info",
       Dict(<<KV("from_agent", Str(<<"main_agent">>)), KV("to_agent", Str(<<"database_agent">>)),
              KV("reason", Str(<<"product search">>))>> \o more))

(* lines 159-173: what the function returns when anything in it raised *)
SearchFailed(error) ==
    Dict(<<KV("success", PyBool(FALSE)),
           KV("message", Str(<<"Sorry, I'm having trouble searching for products right now.">>)),
           KV("whatsapp_type", Str(<<"text">>)),
           KV("handoff_required", PyBool(TRUE)),
           KV("handoff_reason", Str(<<"Product search failed:", " ">> \o error)),
           HandoffInfo(<<KV("status", Str(<<"failed">>)), KV("error", Str(error))>>)>>)

(* lines 121-147: cards for the products found, or the apology *)
WithCards(result_data, query, suggestions) ==
    IF Truthy(Get(result_data, <<"products">>, PyNone))
    THEN LET products == Get(result_data, <<"products">>, PyNone).v
         IN  Put(Put(Put(result_data, <<"product_cards">>,
                         List([i \in 1..Len(products) |->
                                  ProductCard(products[i], suggestions)])),
                     <<"whatsapp_type">>, Str(<<"buttonTemplate">>)),
                 <<"message">>, FoundMessage(Len(products), query, <<"'.">>))
    ELSE Put(Put(result_data, <<"message">>,
                 Str(<<"Sorry, I couldn't find any products matching '">> \o query
                     \o <<"'. Try searching for something else!">>)),
             <<"whatsapp_type">>, Str(<<"text">>))

(* search_products_with_handoff_func, lines 92-174; suggestions is what    *)
(* zoko_utils.get_template_suggestions returns                             *)
search_products_with_handoff_func(query, products, suggestions) ==
    Str(JsonDumps(
        Apply(LAMBDA found :
                  Apply(LAMBDA result_data :
                            IF Truthy(Get(result_data, <<"products">>, PyNone))
                               /\ suggestions = <<>>
                            THEN SearchFailed(<<"list index out of range">>)
                            ELSE Dict(WithCards(result_data, query, suggestions).v
                                      \o <<HandoffInfo(<<KV("timestamp",
                                                            Str(<<"2025-01-28T00:00:00Z">>))>>)>>),
                        IF JsonLoads(found.v).ok THEN JsonLoads(found.v).val
                        ELSE Dict(<<KV("message", found),
                                    KV("whatsapp_type", Str(<<"text">>))>>)),
              search_database_func("search", query, <<>>, products))))

----------------------------------------------------------------------------
(* Specification Spec: deliveries to the webhook, concurrently in flight    *)

ButtonTemplates == {UpsellTemplate, WelcomeTemplate}

NotRecorded == [t |-> -1, newer |-> 0]

Min(a, b) == IF a < b THEN a ELSE b

(* history kept beside is_duplicate: a recorded id restarts, the others age *)
Record(recs, id, t) ==
    [i \in MsgIds |->
        IF i = id THEN [t |-> t, newer |-> 0]
        ELSE IF recs[i].t >= 0
             THEN [recs[i] EXCEPT !.newer = Min(recs[i].newer + 1, max_size)]
             ELSE recs[i]]

(* history dropped once the clock has passed t + ttl *)
Forget(recs, t) ==
    [i \in MsgIds |-> IF recs[i].t >= 0 /\ t - recs[i].t > ttl THEN NotRecorded ELSE recs[i]]

(* what the history says of an id at time t: "none" when it was not        *)
(* recorded or the clock has reached t0 + ttl, "kept" when fewer than      *)
(* max_size ids were recorded after it, else "crowded"                     *)
Prior(rec, t) ==
    IF rec.t < 0 \/ t >= rec.t + ttl THEN "none"
    ELSE IF rec.newer < max_size THEN "kept"
    ELSE "crowded"

(* what the last handler did: its answer, what is_duplicate returned to    *)
(* it, whether the id it presented had been in the store and was expired,  *)
(* and where in the store a duplicate was found (0: no duplicate)          *)
NoRun == [status |-> "none", dup |-> "not called", stale |-> FALSE, hit |-> 0]

(* the place of an id in the store *)
Place(store, id) ==
    IF Contains(store, id) THEN CHOOSE i \in 1..Len(store) : store[i].id = id ELSE 0

(* the export the application starts with, and the loader built from it at *)
(* import (main.py line 358)                                               *)
StockCatalog == File(<<RowVilla, RowPool>>)
NoLoader == [df |-> <<>>, indexed |-> <<>>]
NoCall == [op |-> "none"]
NoResult == [raised |-> FALSE, value |-> PyNone]

catalogVars == <<catalog_file, loader>>
callVars == <<call, result>>
webhookVars == <<now, processed_ids, inflight, background, recorded, last>>

(* the application as it starts, no call made to it *)
Started ==
    /\ available_templates = {}
    /\ catalog_file = StockCatalog
    /\ loader = LoadProducts(StockCatalog, NoLoader).loader
    /\ now = 0
    /\ processed_ids = <<>>
    /\ inflight = EmptyBag
    /\ background = <<>>
    /\ outbox = <<>>
    /\ recorded = [i \in MsgIds |-> NotRecorded]
    /\ last = NoRun

Init == Started /\ call = NoCall /\ result = NoResult

(* a delivery arrives; its handler is suspended at await request.json() *)
Receive(body) ==
    /\ BagCardinality(inflight) < Cardinality(Handlers)
    /\ inflight' = inflight (+) SetToBag({body})
    /\ UNCHANGED <<available_templates, now, processed_ids, background, outbox,
                   recorded, last, catalogVars, callVars>>

(* a suspended handler resumes and runs to its return, lines 262-355 *)
Handle(body) ==
    /\ BagIn(body, inflight)
    /\ inflight' = inflight (-) SetToBag({body})
    /\ \E cached \in CachedResponses :
       \E lang \in IF Truthy(cached) THEN {"en"} ELSE UserLangs(UserText(body)),
          net \in {QuietNet} :
          \E r \in {Webhook(body, processed_ids, now, cached, lang, net)} :
              /\ processed_ids' = r.store
              /\ background' = r.task
              /\ outbox' = r.posts
              /\ recorded' = IF r.dup = "False"
                             THEN Record(recorded, body.id, now)
                             ELSE recorded
              /\ last' = [status |-> r.status, dup |-> r.dup,
                           stale |-> r.dup = "False" /\ Contains(processed_ids, body.id),
                           hit |-> IF r.dup = "True" THEN Place(r.store, body.id) ELSE 0]
    /\ UNCHANGED <<available_templates, now, catalogVars, callVars>>

(* time() advances *)
Tick ==
    /\ now < MaxTime
    /\ now' = now + 1
    /\ recorded' = Forget(recorded, now + 1)
    /\ UNCHANGED <<available_templates, processed_ids, inflight, background, outbox, last,
                   catalogVars, callVars>>

Next ==
    \/ \E body \in Bodies : Receive(body)
    \/ \E body \in Bodies : Handle(body)
    \/ Tick

Spec == Init /\ [][Next]_vars

TypeOK ==
    /\ now \in 0..MaxTime
    /\ Len(background) <= 1
    /\ BagCardinality(inflight) <= Cardinality(Handlers)

----------------------------------------------------------------------------
(* Properties of the webhook and its deduplicator                           *)

(* the step in which the handler of this delivery ran to its return *)
Handled(body) ==
    /\ BagIn(body, inflight)
    /\ inflight' = inflight (-) SetToBag({body})

(* a user event with its chat id and text present (its id is given) *)
Complete(body) ==
    /\ body.event = "message:user:in"
    /\ body.platformSenderId /= <<>>
    /\ UserText(body) /= <<>>

(* the handler got no False from is_duplicate and scheduled nothing, and a *)
(* complete delivery was answered "skipped"                                *)
Dropped(body) ==
    /\ last'.dup /= "False"
    /\ recorded' = recorded
    /\ background' = <<>>
    /\ (Complete(body) => last'.status = "skipped")

(* C1 as stated: once an id has been recorded and the clock is still       *)
(* before t + ttl, no handler gets False for it again or schedules         *)
(* processing, and a complete delivery of it is answered "skipped".        *)
C1_AsStated ==
    [][\A body \in Bodies :
          (/\ Handled(body)
           /\ body.id \in MsgIds
           /\ Prior(recorded[body.id], now) /= "none") => Dropped(body)]_vars

(* C1, amended: the same, for an id after which fewer than max_size ids    *)
(* have been recorded.  Handlers run from one await to the next without    *)
(* interleaving, so this holds for every order of Receive and Handle.      *)
C1_SingleProcessing ==
    [][\A body \in Bodies :
          (/\ Handled(body)
           /\ body.id \in MsgIds
           /\ Prior(recorded[body.id], now) = "kept") => Dropped(body)]_vars

(* a delivery of an id recorded before was found a duplicate and answered  *)
(* "skipped" while another handler was still suspended                     *)
C1_Witness ==
    /\ last.dup = "True"
    /\ last.status = "skipped"
    /\ background = <<>>
    /\ BagCardinality(inflight) >= 1

(* C2 as stated: after is_duplicate(X) returned False at t, a call made    *)
(* before t + ttl returns True, whatever ids came in between.              *)
C2_AsStated ==
    \A id \in MsgIds :
        (recorded[id].t >= 0 /\ now < recorded[id].t + ttl)
            => IsDuplicate(processed_ids, id, now).dup

(* C2, amended: after is_duplicate(X) returned False at t, a call made     *)
(* before t + ttl returns True provided fewer than max_size other ids were *)
(* recorded in between.                                                    *)
C2_SeenWithinTtl ==
    \A id \in MsgIds :
        Prior(recorded[id], now) = "kept" => IsDuplicate(processed_ids, id, now).dup

(* an id recorded earlier, another id recorded after it, time has passed,  *)
(* and a call for it now returns True                                      *)
C2_Witness ==
    \E id \in MsgIds :
        /\ Prior(recorded[id], now) = "kept"
        /\ recorded[id].newer >= 1
        /\ now > recorded[id].t
        /\ IsDuplicate(processed_ids, id, now).dup

(* C3: the store never holds more than max_size ids, it holds exactly the  *)
(* recorded ids with fewer than max_size ids recorded after them (those    *)
(* trimmed are the oldest-inserted), and it keeps them in insertion order. *)
C3_BoundedOldestFirst ==
    /\ Len(processed_ids) <= max_size
    /\ \A id \in MsgIds :
           recorded[id].t >= 0 =>
               (Contains(processed_ids, id) <=> recorded[id].newer < max_size)
    /\ \A p, q \in 1..Len(processed_ids) :
           (/\ p < q
            /\ recorded[processed_ids[p].id].t >= 0
            /\ recorded[processed_ids[q].id].t >= 0)
               => recorded[processed_ids[p].id].newer > recorded[processed_ids[q].id].newer

(* an insertion into a full store trimmed the oldest id *)
C3_Witness ==
    /\ Len(processed_ids) = max_size
    /\ \E id \in MsgIds :
           /\ recorded[id].t >= 0
           /\ recorded[id].newer = max_size
           /\ ~Contains(processed_ids, id)

(* the entries of the store that are not older than ttl at time t, in order *)
Unexpired(store, t) == SelectSeq(store, LAMBDA e : ~Expired(e.ts, t))

(* the handler of this delivery called is_duplicate *)
Looked(body) == Handled(body) /\ last'.dup /= "not called"

(* C19: after a call of is_duplicate no entry older than ttl is in the     *)
(* store, the entries kept are those not older than ttl, in their order,   *)
(* and an id that was in the store with an entry older than ttl gets       *)
(* False and is recorded again, last and with the current time.            *)
C19_ExpiredFirst ==
    [][\A body \in Bodies :
          Looked(body) =>
              /\ \A i \in 1..Len(processed_ids') : ~Expired(processed_ids'[i].ts, now)
              /\ \A i \in 1..Len(Unexpired(processed_ids, now)) :
                     \/ \E j \in 1..Len(processed_ids') :
                            processed_ids'[j] = Unexpired(processed_ids, now)[i]
                     \/ last'.dup = "False" /\ i = 1
                        /\ Len(Unexpired(processed_ids, now)) = max_size
              /\ (\E i \in 1..Len(processed_ids) :
                      /\ processed_ids[i].id = body.id
                      /\ Expired(processed_ids[i].ts, now))
                 => /\ last'.dup = "False"
                    /\ processed_ids' /= <<>>
                    /\ processed_ids'[Len(processed_ids')] = [id |-> body.id, ts |-> now]]_vars

(* an id that was in the store, recorded more than ttl before, was         *)
(* presented again: it got False and is in the store with the current time *)
C19_Witness ==
    /\ last.stale
    /\ last.dup = "False"
    /\ processed_ids /= <<>>
    /\ processed_ids[Len(processed_ids)].ts = now
    /\ now > ttl

(* C20: a call of is_duplicate that returns True leaves in the store       *)
(* exactly the entries not older than ttl, each with the timestamp it had  *)
(* and in the order they had; the id found is among them and nothing is    *)
(* added.                                                                  *)
C20_NoRefresh ==
    [][\A body \in Bodies :
          (Handled(body) /\ last'.dup = "True") =>
              /\ processed_ids' = Unexpired(processed_ids, now)
              /\ \E i \in 1..Len(processed_ids) :
                     /\ processed_ids[i].id = body.id
                     /\ ~Expired(processed_ids[i].ts, now)
                     /\ \E j \in 1..Len(processed_ids') :
                            processed_ids'[j] = processed_ids[i]]_vars

(* the id found is still the oldest of two entries, behind one recorded    *)
(* after it, with the timestamp of its arrival                             *)
C20_Witness ==
    /\ last.dup = "True"
    /\ last.hit = 1
    /\ Len(processed_ids) = 2
    /\ processed_ids[1].ts < processed_ids[2].ts

(* the delivery is one that lines 263-298 turn away before is_duplicate is  *)
(* called: no user event, a field missing, not from the customer, or a     *)
(* text that starts with one of the bot's phrases                          *)
RejectedEarly(body) ==
    \/ body.event /= "message:user:in"
    \/ body.platformSenderId = <<>>
    \/ UserText(body) = <<>>
    \/ body.id = 0
    \/ body.direction /= "FROM_CUSTOMER"
    \/ StartsWith(UserText(body), <<"I'm having trouble processing your request">>)
    \/ StartsWith(UserText(body), <<"Hello! \\U0001f44b">>)

(* C28: a delivery that the webhook turns away before the duplicate check  *)
(* leaves the store of the deduplicator as it was: its id is not recorded, *)
(* and no entry is expired, moved or evicted.                              *)
C28_RejectedLeaveStore ==
    [][\A body \in Bodies :
          (Handled(body) /\ RejectedEarly(body)) =>
              /\ processed_ids' = processed_ids
              /\ recorded' = recorded
              /\ last'.dup = "not called"]_vars

(* the deliveries with id 3 that miss a field were answered with an error  *)
(* while the store held other ids, and id 3 is not in the store            *)
C28_Witness ==
    /\ last.status = "error"
    /\ last.dup = "not called"
    /\ processed_ids /= <<>>
    /\ \A i \in 1..Len(processed_ids) : processed_ids[i].id /= 3

----------------------------------------------------------------------------
(* Specification SearchSpec: the export is rewritten and searched           *)

Catalogs ==
    {StockCatalog, File(<<RowDeck, RowSpa, RowDraft>>), File(<<RowHidden>>),
     File(<<RowBare>>), MissingFile}

Queries == {<<" ", "pool", " ", "blue">>, <<"yacht">>}

(* the language asked for, and what the translator does when it is called *)
Translations == {<<"en", "ok">>, <<"cs", "ok">>, <<"cs", "empty">>, <<"cs", "fails">>}

MaxResults == {1, 3}

SearchInit == Init

(* products_export.json is replaced *)
WriteCatalog(file) ==
    /\ catalog_file' = file
    /\ UNCHANGED <<available_templates, outbox, webhookVars, loader, callVars>>

(* product_loader.search(query, lang, max_results); the model's scores and *)
(* the translator's behaviour are inputs                                   *)
Search(query, lang, max_results, tr) ==
    \E n \in {Len(LoadProducts(catalog_file, loader).loader.df)} :
        \E cos_scores \in [1..n -> Scores] :
        \E top \in [1..n -> 1..n] :
            /\ IsArgsort(top, cos_scores)
            /\ \E r \in {search(loader, catalog_file, query, lang, max_results, top, tr)} :
                   /\ loader' = r.loader
                   /\ call' = [op |-> "search", query |-> query, lang |-> lang,
                               max_results |-> max_results, cos_scores |-> cos_scores,
                               catalog |-> catalog_file]
                   /\ result' = [raised |-> r.raised, value |-> List(r.results)]
            /\ UNCHANGED <<available_templates, outbox, webhookVars, catalog_file>>

SearchNext ==
    \/ \E file \in Catalogs : WriteCatalog(file)
    \/ \E query \in Queries, tr \in Translations, max_results \in MaxResults :
          Search(query, tr[1], max_results, tr[2])

SearchSpec == SearchInit /\ [][SearchNext]_vars

----------------------------------------------------------------------------
(* Properties of ProductLoader.search                                       *)

Searched == call.op = "search" /\ ~result.raised

NonEmpty(p, key) == IsStr(Get(p, key, PyNone)) /\ Get(p, key, PyNone).v /= <<>>

(* C9: every product a search returned has a non-empty image_url, a        *)
(* non-empty description and a non-empty url.                              *)
C9_ReturnedComplete ==
    Searched =>
        \A i \in 1..Len(result.value.v) :
            /\ NonEmpty(result.value.v[i], <<"image_url">>)
            /\ NonEmpty(result.value.v[i], <<"description">>)
            /\ NonEmpty(result.value.v[i], <<"url">>)

(* a search returned the row that has neither image nor Body (HTML) nor    *)
(* Handle, described by its name                                           *)
C9_Witness ==
    /\ Searched
    /\ \E i \in 1..Len(result.value.v) :
          /\ Get(result.value.v[i], <<"Title">>, PyNone) = Str(<<"Spa", " ", "Zen">>)
          /\ Get(result.value.v[i], <<"description">>, PyNone)
                = Str(<<"Order", " ", "Spa", " ", "Zen">>)
          /\ Get(result.value.v[i], <<"image_url">>, PyNone) = FallbackImage

(* every row of the loaded catalog scored below the threshold and no title *)
(* contains all the words of the query                                     *)
NothingSimilar ==
    /\ Searched
    /\ loader.df /= <<>>
    /\ \A i \in 1..Len(loader.df) :
          /\ call.cos_scores[i] < threshold
          /\ ~match_partial(loader.df[i], Strip(call.query))

(* C10 as stated: when every product scores below the threshold and no     *)
(* title contains all the words of the query, search returns an empty list. *)
C10_AsStated == NothingSimilar => result.value.v = <<>>

(* the rows of an export that _load_products keeps, lines 40-65 *)
ListedRows(file) ==
    IF file.exists /\ HasColumns(file.rows)
    THEN SelectSeq(SelectSeq(file.rows, KeepTitle), KeepListed)
    ELSE <<>>

(* product is a row of the export, localized *)
FromExport(product, file, lang) ==
    \E j \in 1..Len(ListedRows(file)) :
        \E tr \in {"ok", "empty", "fails"} :
            product = _localize_product(ListedRows(file)[j], lang, tr)

(* C24: search reloads the catalog before it searches: every product a     *)
(* search returned is a row that the export held, and that the title, the  *)
(* availability and the status filters kept, when that search was called.  *)
C24_SearchesFreshCatalog ==
    Searched =>
        \A i \in 1..Len(result.value.v) :
            FromExport(result.value.v[i], call.catalog, call.lang)

(* the export was replaced after the stock catalog was loaded, and the     *)
(* search that followed returned a row of the new export                   *)
C24_Witness ==
    /\ Searched
    /\ call.catalog = File(<<RowDeck, RowSpa, RowDraft>>)
    /\ call.catalog /= StockCatalog
    /\ loader.indexed = <<RowSpa>>
    /\ Len(result.value.v) = 1
    /\ Get(result.value.v[1], <<"Title">>, PyNone) = Str(<<"Spa", " ", "Zen">>)

(* C25 as stated: whenever the loader can be observed, its table df and   *)
(* the rows its product_texts and product_embeddings were built from are   *)
(* one catalog snapshot.                                                   *)
C25_AsStated == loader.df = loader.indexed

----------------------------------------------------------------------------
(* Specification BuildSpec: the builders called with what the database and  *)
(* the template list answer                                                 *)

ProductLists ==
    {<<>>, <<ProdVilla>>, <<ProdLong>>, <<ProdVilla, ProdPool>>, <<ProdPool, ProdLong>>,
     <<ProdVilla, ProdPool, ProdLong>>}

BuildQueries == {<<>>, <<"villa">>, <<" ", "pool", " ", "blue">>}

DatabaseCalls ==
    [op : {"search_database_func"}, action : {"search", "browse_all", "get_details", "buy"},
     query : BuildQueries, products : ProductLists]

HandoffCalls ==
    [op : {"search_products_with_handoff_func"}, action : {"search"}, query : BuildQueries,
     products : ProductLists, suggestions : SuggestionLists]

(* a call is about to be made, with what the database and the template     *)
(* list will answer                                                        *)
BuildInit == Started /\ call \in DatabaseCalls \cup HandoffCalls /\ result = NoResult

SearchDatabase ==
    /\ call.op = "search_database_func"
    /\ result = NoResult
    /\ result' = [raised |-> FALSE,
                  value |-> search_database_func(call.action, call.query, call.query,
                                                 call.products)]
    /\ UNCHANGED <<available_templates, outbox, webhookVars, catalogVars, call>>

SearchWithHandoff ==
    /\ call.op = "search_products_with_handoff_func"
    /\ result = NoResult
    /\ result' = [raised |-> FALSE,
                  value |-> search_products_with_handoff_func(call.query, call.products,
                                                              call.suggestions)]
    /\ UNCHANGED <<available_templates, outbox, webhookVars, catalogVars, call>>

BuildNext == SearchDatabase \/ SearchWithHandoff

BuildSpec == BuildInit /\ [][BuildNext]_vars

----------------------------------------------------------------------------
(* Properties of the builders                                               *)

(* a search that was given a query and came back *)
Built ==
    /\ call.op \in {"search_database_func", "search_products_with_handoff_func"}
    /\ result /= NoResult
    /\ call.action = "search"
    /\ Strip(call.query) /= <<>>

BuiltType == TypeOf(JsonLoads(result.value.v).val)

(* C5 as stated: the message built for a search is a text exactly when no  *)
(* product was found, a buttonTemplate exactly when one was, and an        *)
(* interactive_list exactly when two or more were.                         *)
C5_AsStated ==
    Built =>
        /\ BuiltType = Str(<<"text">>) <=> Len(call.products) = 0
        /\ BuiltType = Str(<<"buttonTemplate">>) <=> Len(call.products) = 1
        /\ BuiltType = Str(<<"interactive_list">>) <=> Len(call.products) >= 2

(* the template of the message that was built *)
BuiltTemplate == Get(JsonLoads(result.value.v).val, <<"template">>, PyNone)

(* the arguments the tests name for one product: image, title, PROD-<id>,  *)
(* Buy Now                                                                 *)
BuyNowArgs(product) ==
    List(<<Get(product, <<"image_url">>, PyNone), Get(product, <<"title">>, PyNone),
           Str(<<"PROD-">> \o PyStr(Get(product, <<"id">>, PyNone))), Str(<<"Buy Now">>)>>)

(* C14 as stated: a search that finds exactly one product builds the       *)
(* template zoko_upsell_product_01 with exactly four string arguments: the  *)
(* product's image URL, its title, PROD-<id> and Buy Now.                   *)
C14_AsStated ==
    (Built /\ call.op = "search_database_func" /\ Len(call.products) = 1) =>
        /\ Get(BuiltTemplate, <<"template_id">>, PyNone) = Str(UpsellTemplate)
        /\ Get(BuiltTemplate, <<"template_args">>, PyNone) = BuyNowArgs(call.products[1])

----------------------------------------------------------------------------
(* Specification GatewaySpec: ZokoClient.send_interactive_list called with  *)
(* a list of items, as the tests and the senders of the repository call it  *)

Item(title, description, payload) ==
    Dict(<<KV("title", Str(title)), KV("description", Str(description)),
           KV("payload", Str(payload))>>)

ItemLong == Item(Rep("t", 30), Rep("d", 80), <<"view_1">>)
ItemShort == Item(Rep("s", 11), Rep("e", 10), <<"view_2">>)
ItemAgain == Item(Rep("u", 17), Rep("f", 17), <<"view_1">>)
ItemPlain == Item(Rep("p", 24), <<>>, <<"view_3">>)
ItemBare == Dict(<<KV("payload", Str(<<"view_4">>))>>)

ItemLists ==
    {<<>>, <<ItemShort>>, <<ItemLong, ItemShort>>, <<ItemLong, ItemShort, ItemAgain>>,
     <<ItemShort, ItemPlain>>, <<ItemBare, ItemShort>>, <<ItemShort, ItemShort>>}

GatewayChats == {GoodChat, PlusChat, NewlineChat, ZeroChat, ShortChat, NameChat, <<>>}

ListCalls ==
    [op : {"send_interactive_list"}, chat_id : GatewayChats,
     header : {<<"Header">>}, body : {<<"Body">>}, items : ItemLists, net : Nets]

(* texts: plain, a JSON object, a JSON object inside spaces, braces that   *)
(* are no JSON, and a dict in place of the str                             *)
GatewayTexts ==
    {Str(<<"Hello">>),
     Str(JsonDumps(TextReply(<<"hi">>))),
     Str(<<" ", "{", "}", "\n">>),
     Str(<<"{", "oops", "}">>),
     TextReply(<<"hi">>)}

TextCalls == [op : {"send_text"}, chat_id : GatewayChats, text : GatewayTexts, net : Nets]

(* template arguments: four strings, a dict, a list holding a dict, a list *)
(* holding a JSON object string, a list holding braces that are no JSON    *)
GatewayArgs ==
    {Get(ButtonData(ProdVilla, <<"view_details_payload">>), <<"template_args">>, PyNone),
     ButtonData(ProdVilla, <<"view_details_payload">>),
     List(<<Str(<<"https://cdn/villa.png">>), ProdVilla>>),
     List(<<Str(<<"https://cdn/villa.png">>), Str(JsonDumps(ProdVilla))>>),
     List(<<Str(<<"https://cdn/villa.png">>), Str(<<"{", "oops", "}">>)>>)}

ButtonCalls ==
    [op : {"send_button_template"}, chat_id : GatewayChats,
     template_id : {UpsellTemplate, WelcomeTemplate}, template_args : GatewayArgs, net : Nets]

GatewayInit == Started /\ call \in ListCalls \cup TextCalls \cup ButtonCalls /\ result = NoResult

SendText ==
    /\ call.op = "send_text"
    /\ result = NoResult
    /\ \E r \in {send_text(call.chat_id, call.text, call.net)} :
          /\ outbox' = r.posts
          /\ result' = [raised |-> FALSE, value |-> PyBool(r.ok)]
    /\ UNCHANGED <<available_templates, webhookVars, catalogVars, call>>

SendButtonTemplate ==
    /\ call.op = "send_button_template"
    /\ result = NoResult
    /\ \E r \in {send_button_template(call.chat_id, call.template_id, call.template_args,
                                       call.net)} :
          /\ outbox' = r.posts
          /\ result' = [raised |-> FALSE, value |-> PyBool(r.ok)]
    /\ UNCHANGED <<available_templates, webhookVars, catalogVars, call>>

SendList ==
    /\ call.op = "send_interactive_list"
    /\ result = NoResult
    /\ \E r \in {send_interactive_list(call.chat_id, call.header, call.body,
                                       List(call.items), call.net)} :
          /\ outbox' = r.posts
          /\ result' = [raised |-> FALSE, value |-> PyBool(r.ok)]
    /\ UNCHANGED <<available_templates, webhookVars, catalogVars, call>>

GatewayNext == SendList \/ SendText \/ SendButtonTemplate

GatewaySpec == GatewayInit /\ [][GatewayNext]_vars

----------------------------------------------------------------------------
(* Properties of the lists sent                                             *)

(* the items of the interactive lists posted to the channel *)
SentLists ==
    {outbox[i].content.v : i \in {j \in 1..Len(outbox) : outbox[j].type = "interactive_list"}}

Payload(item) == Get(item, <<"payload">>, Str(<<"default">>))

(* C6 as stated: the items of every list sent have pairwise distinct       *)
(* payloads, and each is the first of the items given that has its payload. *)
C6_AsStated ==
    \A items \in SentLists :
        /\ \A a, b \in 1..Len(items) : a /= b => Payload(items[a]) /= Payload(items[b])
        /\ \A a \in 1..Len(items) :
              \E i \in 1..Len(call.items) :
                  /\ items[a] = FormatItem(call.items[i])
                  /\ \A j \in 1..(i - 1) : Payload(call.items[j]) /= Payload(call.items[i])

(* C7 as stated: in every list sent each title has at most 24 characters   *)
(* and each description has at least 1 and at most 72.                     *)
C7_AsStated ==
    \A items \in SentLists :
        \A a \in 1..Len(items) :
            /\ Len(Get(items[a], <<"title">>, PyNone).v) <= 24
            /\ Len(Get(items[a], <<"description">>, PyNone).v) \in 1..72

(* a send of the gateway was called and returned *)
Sent ==
    /\ call.op \in {"send_text", "send_button_template", "send_interactive_list"}
    /\ result /= NoResult

(* the phone-number format: an optional +, a digit from 1 to 9 and nine to *)
(* fourteen digits more, to the end of the string or of its only line      *)
PhoneFormat(chat) ==
    \E plus \in {<<>>, <<"+">>}, n \in 10..15, end \in {<<>>, <<"\n">>} :
        /\ Len(chat) = Len(plus) + n + Len(end)
        /\ SubSeq(chat, 1, Len(plus)) = plus
        /\ SubSeq(chat, Len(plus) + n + 1, Len(chat)) = end
        /\ chat[Len(plus) + 1] \in Digits \ {"0"}
        /\ \A i \in (Len(plus) + 2)..(Len(plus) + n) : chat[i] \in Digits

(* C17: a send of the gateway to a chat_id that does not match the         *)
(* phone-number format returns False and makes no HTTP request.            *)
C17_RecipientValidated ==
    (Sent /\ ~PhoneFormat(call.chat_id)) =>
        /\ result.value = PyBool(FALSE)
        /\ ~result.raised
        /\ outbox = <<>>

(* a plain text was sent to a number that starts with 0 over a working     *)
(* network, and came back False with no request made                       *)
C17_Witness ==
    /\ call.op = "send_text"
    /\ call.chat_id = ZeroChat
    /\ call.text = Str(<<"Hello">>)
    /\ call.net = QuietNet
    /\ result /= NoResult
    /\ result.value = PyBool(FALSE)
    /\ outbox = <<>>

(* a str that json.loads reads as an object *)
JsonObjectString(v) == IsStr(v) /\ JsonLoads(v.v).ok /\ IsDict(JsonLoads(v.v).val)

(* a dict, or a list that holds a dict or a JSON object string *)
CarriesJson(template_args) ==
    \/ IsDict(template_args)
    \/ /\ IsList(template_args)
       /\ \E i \in 1..Len(template_args.v) :
              IsDict(template_args.v[i]) \/ JsonObjectString(template_args.v[i])

(* C18: send_text of a JSON object string, and send_button_template of     *)
(* arguments that are a dict or hold a dict or a JSON object string,       *)
(* return False and make no HTTP request; no request that is made carries  *)
(* such a text or such arguments.                                          *)
C18_NoJsonSent ==
    /\ (Sent /\ call.op = "send_text" /\ JsonObjectString(call.text)) =>
           result.value = PyBool(FALSE) /\ outbox = <<>>
    /\ (Sent /\ call.op = "send_button_template" /\ CarriesJson(call.template_args)) =>
           result.value = PyBool(FALSE) /\ outbox = <<>>
    /\ \A i \in 1..Len(outbox) :
           /\ outbox[i].type = "text" => ~JsonObjectString(outbox[i].content)
           /\ outbox[i].type = "buttonTemplate" => ~CarriesJson(outbox[i].content)

(* a JSON object string was given to send_text for a valid number over a   *)
(* working network, and came back False with no request made               *)
C18_Witness ==
    /\ call.op = "send_text"
    /\ call.chat_id = GoodChat
    /\ call.text = Str(JsonDumps(TextReply(<<"hi">>)))
    /\ call.net = QuietNet
    /\ result /= NoResult
    /\ result.value = PyBool(FALSE)
    /\ outbox = <<>>

(* arguments that hold a JSON object string were given to                  *)
(* send_button_template for a valid number, and came back False            *)
C18_WitnessArgs ==
    /\ call.op = "send_button_template"
    /\ call.chat_id = GoodChat
    /\ call.template_args = List(<<Str(<<"https://cdn/villa.png">>), Str(JsonDumps(ProdVilla))>>)
    /\ call.net = QuietNet
    /\ result /= NoResult
    /\ result.value = PyBool(FALSE)
    /\ outbox = <<>>

----------------------------------------------------------------------------
(* Specification ParseSpec: a canonical message is serialized and handed to *)
(* the parsing of chat_with_agent_enhanced as the agent's final output      *)

MessageTexts ==
    {<<"Hello">>, <<>>, <<"a", Q, "b">>, <<"x", BS, "n">>, <<"line", "\n", "two">>,
     <<"{", "}">>, <<"assistant:", " ", "hi">>,
     <<FenceOpen, " ", "{", "}", " ", FenceClose>>,
     <<"Use", " ", FenceOpen, "\n", "{", Q, "a", Q, ":", " ", "1", "}", "\n", FenceClose>>}

ButtonArgs ==
    {ButtonData(ProdVilla, <<"Buy Now">>), ButtonData(ProdPool, <<"view_details_payload">>),
     ButtonData(ProdLong, <<"{", "}">>)}

CanonicalMessages ==
    {TextReply(text) : text \in MessageTexts}
    \cup {Dict(<<KV("whatsapp_type", Str(<<"buttonTemplate">>))>> \o data.v) :
            data \in ButtonArgs}
    \cup {FlatList(Str(header), Str(body), items) :
            header \in {<<"LEVA Properties">>, <<"Homes", " ", Q, "new", Q>>},
            body \in MessageTexts \ {<<>>},
            items \in ItemLists}

ParseInit ==
    /\ Started
    /\ call \in [op : {"parse"}, m : CanonicalMessages]
    /\ result = NoResult

(* json.dumps(m), then lines 427-515 of chat_with_agent_enhanced *)
ParseSerialized ==
    /\ call.op = "parse"
    /\ result = NoResult
    /\ result' = [raised |-> FALSE, value |-> ParseAgentOutput(JsonDumps(call.m))]
    /\ UNCHANGED <<available_templates, outbox, webhookVars, catalogVars, call>>

ParseNext == ParseSerialized

ParseSpec == ParseInit /\ [][ParseNext]_vars

----------------------------------------------------------------------------
(* Properties of the parsing                                                *)

(* C8 as stated: a canonical message serialized to JSON and parsed and     *)
(* normalized is that message again.                                       *)
C8_AsStated == (call.op = "parse" /\ result /= NoResult) => result.value = call.m

----------------------------------------------------------------------------
(* Specification UnwrapSpec: fully_parse_json is called with a string and   *)
(* its while loop runs pass by pass                                         *)

MaxWraps == 3     \* a text is string-encoded up to MaxWraps times

(* json.dumps applied n times to a text *)
RECURSIVE Wrapped_n(_, _)
Wrapped_n(text, n) == IF n = 0 THEN text ELSE Wrapped_n(JsonDumps(Str(text)), n - 1)

UnwrapTexts ==
    MessageTexts
    \cup {JsonDumps(TextReply(<<"a", Q, "b">>)),
          JsonDumps(List(<<Str(<<"x">>)>>)),
          <<"1", "2">>,
          <<"assistant:", " ">> \o JsonDumps(Str(<<"assistant:", " ", "hi">>))}

UnwrapCalls == [op : {"fully_parse_json"}, text : {Wrapped_n(text, n) : text \in UnwrapTexts, n \in 0..MaxWraps}]

UnwrapInit == Started /\ call \in UnwrapCalls /\ result = NoResult

(* the call: obj is the argument and the loop condition is read *)
EnterLoop ==
    /\ call.op = "fully_parse_json"
    /\ result = NoResult
    /\ result' = [raised |-> FALSE, value |-> Str(call.text), running |-> TRUE]
    /\ UNCHANGED <<available_templates, outbox, webhookVars, catalogVars, call>>

(* one pass of the loop, lines 333-345: break when orjson.loads raises,    *)
(* else the loop condition is read on the value parsed                     *)
LoopPass ==
    /\ call.op = "fully_parse_json"
    /\ result /= NoResult
    /\ result.running
    /\ \E u \in {Unwrap(result.value.v)} :
          result' = [raised |-> FALSE, value |-> u.obj, running |-> u.again /\ IsStr(u.obj)]
    /\ UNCHANGED <<available_templates, outbox, webhookVars, catalogVars, call>>

UnwrapNext == EnterLoop \/ LoopPass

UnwrapSpec == UnwrapInit /\ [][UnwrapNext]_vars

(* the interpreter goes on executing the loop it is in *)
UnwrapFairSpec == UnwrapSpec /\ WF_vars(UnwrapNext)

----------------------------------------------------------------------------
(* Properties of the unwrap loop                                            *)

(* the loop has been left *)
Returned == call.op = "fully_parse_json" /\ result /= NoResult /\ ~result.running

(* C23: every call of fully_parse_json leaves its loop, and each pass      *)
(* either ends the loop or leaves a str strictly shorter than the one it   *)
(* started with.                                                           *)
C23_Terminates ==
    /\ [][(call.op = "fully_parse_json" /\ result /= NoResult) =>
              \/ ~result'.running
              \/ /\ IsStr(result'.value)
                 /\ Len(result'.value.v) < Len(result.value.v)]_vars
    /\ <>Returned

(* a text encoded MaxWraps times was unwrapped, one encoding a pass, to    *)
(* the text, and the loop was left when that did not parse                 *)
C23_Witness ==
    /\ Returned
    /\ call.text = Wrapped_n(<<"Hello">>, MaxWraps)
    /\ result.value = Str(<<"Hello">>)

----------------------------------------------------------------------------
(* process_zoko_message (src/main.py:360-625)                               *)

(* is_product_query, lines 226-232: a keyword occurs in the lowered text,  *)
(* read here over the tokens of the text                                   *)
ProductKeywords ==
    {"house", "pool", "apartment", "product", "villa", "plan", "summerhouse", "clubhouse",
     "spa", "show me", "find", "search", "give me", "lynx", "rana", "sciurus", "oryx",
     "criceta", "coffee shop"}

is_product_query(user_text) ==
    \E i \in 1..Len(user_text) : LowerTok(user_text[i]) \in ProductKeywords

(* zoko_utils.py line 460: the src of the first of product['images'] *)
ImagesSrc(product) ==
    LET images == Get(product, <<"images">>, PyNone)
    IN  IF IsList(images) /\ images.v /= <<>>
        THEN (IF IsDict(images.v[1]) THEN Get(images.v[1], <<"src">>, PyNone) ELSE Raised)
        ELSE PyNone

(* line 468: re.sub(r'[*_grave~\\\-]', '', body); no text here holds a grave *)
MarkupChars == {"*", "_", "~", BS, "-"}

UpsellHeader(product) ==
    Take(Strip(StripTags(PyStr(
        FirstTruthy(product, << <<"name">>, <<"Title">>, <<"title">> >>, Str(<<"Product">>))))),
         24)

UpsellBody(product, header) ==
    Apply(LAMBDA cleaned : IF cleaned = <<>> THEN <<"Order", " ">> \o header ELSE cleaned,
          Take(Strip(SelectSeq(
                   StripTags(PyStr(FirstTruthy(product,
                       << <<"description">>, <<"Body (HTML)">>, <<"body_html">> >>,
                       Str(<<"Order", " ">> \o header)))),
                   LAMBDA c : c \notin MarkupChars)),
               200))

UpsellPayload(product) ==
    LET handle == FirstTruthy(product, << <<"Handle">>, <<"handle">>, <<"id">> >>, Str(<<>>))
    IN  IF Truthy(Get(product, <<"url">>, PyNone)) THEN PyStr(Get(product, <<"url">>, PyNone))
        ELSE IF Truthy(handle) THEN <<"https://www.theleva.com/products/">> \o PyStr(handle)
        ELSE <<"https://www.theleva.com/">>

(* prepare_zoko_upsell_args (src/zoko_utils.py:450-484): image, header,    *)
(* body and payload, each as a str                                         *)
prepare_zoko_upsell_args(product) ==
    LET image == FirstTruthy(product, << <<"image_url">>, <<"Image Src">>, <<"image">> >>,
                             PyNone)
    IN  IF ~Truthy(image) /\ ImagesSrc(product) = Raised THEN Raised
        ELSE List(<<Str(PyStr(IF Truthy(image) THEN image
                              ELSE IF Truthy(ImagesSrc(product)) THEN ImagesSrc(product)
                              ELSE FallbackImage)),
                    Str(UpsellHeader(product)),
                    Str(UpsellBody(product, UpsellHeader(product))),
                    Str(UpsellPayload(product))>>)

(* what the try block, and the whole coroutine, come to: the requests made, *)
(* whether an exception left it, and the answer of the agent (None when it  *)
(* was not asked)                                                           *)
Outcome(posts, raised, response) == [posts |-> posts, raised |-> raised, response |-> response]

(* await zoko_client.send_...(...): the method is a plain def; it runs and *)
(* returns its bool, and awaiting the bool raises TypeError                *)
AwaitReturnsMutant(sent, response) == Outcome(sent.posts, FALSE, response)

AwaitSend(sent, response) == Outcome(sent.posts, TRUE, response)

GeneralInfoText == <<"We offer a wide range of modular architectural products">>
NoProductsText == <<"Sorry, no products found.">>
ErrorText == <<"Sorry, something went wrong.">>

(* for item in x: the elements of a list, the characters of a str, the keys of a dict *)
Iterable(x) == x.t \in {"list", "str", "dict"}
Elements(x) ==
    CASE x.t = "list" -> x.v
      [] x.t = "str" -> [i \in 1..Len(x.v) |-> Str(<<x.v[i]>>)]
      [] x.t = "dict" -> [i \in 1..Len(x.v) |-> Str(x.v[i][1])]

(* lines 476-478: the three fields of one item, cut to the channel's limits *)
ListEntry(item) ==
    Dict(<<KV("title", Str(Take(PyStr(Get(item, <<"title">>, Str(<<>>))), 24))),
           KV("description", Str(Take(PyStr(Get(item, <<"description">>, Str(<<>>))), 72))),
           KV("payload", Str(Take(PyStr(Get(item, <<"payload">>, Str(<<>>))), 200)))>>)

(* lines 479-486: entries without payload or title, or with a payload seen *)
(* before, are skipped                                                     *)
RECURSIVE KeptEntries(_, _)
KeptEntries(entries, seen_payloads) ==
    IF entries = <<>> THEN <<>>
    ELSE IF \/ Get(entries[1], <<"payload">>, PyNone).v = <<>>
            \/ Get(entries[1], <<"title">>, PyNone).v = <<>>
            \/ Get(entries[1], <<"payload">>, PyNone).v \in seen_payloads
         THEN KeptEntries(Tail(entries), seen_payloads)
         ELSE <<entries[1]>>
              \o KeptEntries(Tail(entries),
                             seen_payloads \cup {Get(entries[1], <<"payload">>, PyNone).v})

(* lines 471-505, the flat interactive_list.  An item that is not a dict   *)
(* raises at item.get; send_interactive_list has no section_title and no   *)
(* footer parameter, so the call of lines 495-502 raises TypeError before  *)
(* the method runs; with no item left the text of line 505 is sent.        *)
SendFlatList(chat_id, response_data, net) ==
    LET items == Get(response_data, <<"items">>, PyNone)
    IN  IF ~Iterable(items) \/ \E i \in 1..Len(Elements(items)) : ~IsDict(Elements(items)[i])
        THEN Outcome(<<>>, TRUE, response_data)
        ELSE IF KeptEntries([i \in 1..Len(items.v) |-> ListEntry(items.v[i])], {}) /= <<>>
        THEN Outcome(<<>>, TRUE, response_data)
        ELSE AwaitSend(send_text(chat_id, Str(NoProductsText), net), response_data)

(* lines 507-516, the buttonTemplate *)
SendButton(chat_id, response_data, net) ==
    Apply(LAMBDA args :
              IF args = Raised THEN Outcome(<<>>, TRUE, response_data)
              ELSE AwaitSend(send_button_template(chat_id,
                                 Get(response_data, <<"template_id">>, Str(UpsellTemplate)).v,
                                 args, net),
                             response_data),
          IF HasKey(response_data, <<"template_args">>)
          THEN Get(response_data, <<"template_args">>, PyNone)
          ELSE prepare_zoko_upsell_args(response_data))

(* lines 524-531: one item of interactiveList.list.sections[].items, its   *)
(* description cut to 47 characters and "..." when longer than 50          *)
NestedEntry(item) ==
    LET desc == Get(item, <<"description">>, Str(<<>>))
    IN  Dict(<<KV("payload", Str(PyStr(Get(item, <<"payload">>, Str(<<>>))))),
               KV("title", Str(Take(Get(item, <<"title">>, Str(<<>>)).v, 24))),
               KV("description",
                  IF ~Truthy(desc) THEN Str(<<"No description available">>)
                  ELSE IF Len(desc.v) > 50 THEN Str(Take(desc.v, 47) \o <<".", ".", ".">>)
                  ELSE desc)>>)

(* lines 517-536, the nested interactive_list; a part of the wrong type    *)
(* raises where the code reads it                                          *)
SendNestedList(chat_id, response_data, net) ==
    LET interactive == Get(response_data, <<"interactiveList">>, PyNone)
        list_obj == Get(interactive, <<"list">>, PyNone)
        sections == Get(list_obj, <<"sections">>, List(<<>>))
        text == Get(interactive, <<"body">>, Dict(<<>>))
        entries == SectionEntries(sections.v, <<"items">>)
    IN  IF \/ ~IsDict(list_obj)
           \/ ~IsDict(text)
           \/ ~WellFormedSections(sections, <<"items">>)
           \/ \E i \in 1..Len(entries) :
                  \/ ~IsStr(Get(entries[i], <<"title">>, Str(<<>>)))
                  \/ ~IsStr(Get(entries[i], <<"description">>, Str(<<>>)))
        THEN Outcome(<<>>, TRUE, response_data)
        ELSE AwaitSend(
                 send_interactive_list(chat_id,
                     Get(list_obj, <<"title">>, Str(<<"LEVA Houses">>)),
                     Get(text, <<"text">>, Str(<<"Choose an option:">>)),
                     List(SelectSeq([i \in 1..Len(entries) |-> NestedEntry(entries[i])],
                                    LAMBDA e : /\ Truthy(Get(e, <<"title">>, PyNone))
                                               /\ Truthy(Get(e, <<"payload">>, PyNone)))),
                     net),
                 response_data)

(* lines 537-617: both search functions of handoff_tools.py take query     *)
(* alone, so each call with lang= raises TypeError before the function     *)
(* runs, whichever of the two the cleaned query selects                    *)
SearchFallback(response_data) == Outcome(<<>>, TRUE, response_data)

(* lines 618-620: the text of the answer *)
SendAnswerText(chat_id, response_data, net) ==
    AwaitSend(send_text(chat_id,
                        Get(response_data, <<"message">>, Str(PyStr(response_data))), net),
              response_data)

(* lines 433-620 for the dict chat_with_agent_enhanced returns: lines      *)
(* 436-441 and 444-469 act on a str and on a list, which it never returns  *)
Dispatch(chat_id, user_text, response_data, net) ==
    IF /\ TypeOf(response_data) = Str(<<"interactive_list">>)
       /\ HasKey(response_data, <<"header">>)
       /\ HasKey(response_data, <<"body">>)
       /\ HasKey(response_data, <<"items">>)
    THEN SendFlatList(chat_id, response_data, net)
    ELSE IF TypeOf(response_data) = Str(<<"buttonTemplate">>)
    THEN SendButton(chat_id, response_data, net)
    ELSE IF /\ TypeOf(response_data) = Str(<<"interactive_list">>)
            /\ IsDict(Get(response_data, <<"interactiveList">>, PyNone))
            /\ HasKey(Get(response_data, <<"interactiveList">>, PyNone), <<"list">>)
    THEN SendNestedList(chat_id, response_data, net)
    ELSE IF /\ is_product_query(user_text)
            /\ TypeOf(response_data) \notin {Str(<<"buttonTemplate">>), Str(<<"interactive_list">>)}
    THEN SearchFallback(response_data)
    ELSE SendAnswerText(chat_id, response_data, net)

(* src.tools defines neither is_general_product_info_query nor             *)
(* send_text_message, which main.py line 14 imports.  The first is read as *)
(* a predicate the caller decides, the second as a coroutine that sends    *)
(* the text through the client or raises.                                  *)
GeneralAnswers == {"no", "sent", "raised"}

is_general_product_info_query(general) == general /= "no"

send_text_message(chat_id, text, general, net) ==
    IF general = "raised" THEN Outcome(<<>>, TRUE, PyNone)
    ELSE Outcome(send_text(chat_id, text, net).posts, FALSE, PyNone)

(* lines 371-620, the try block.  ProductLoader has no get_by_id, so line  *)
(* 394 raises AttributeError for every selection.                          *)
TryBlock(payload, general, run, net) ==
    IF is_general_product_info_query(general)
    THEN send_text_message(payload.platformSenderId, Str(GeneralInfoText), general, net)
    ELSE IF payload.selected_product_id /= <<>> THEN Outcome(<<>>, TRUE, PyNone)
    ELSE Apply(LAMBDA response :
                   Dispatch(payload.platformSenderId, payload.text, response, net),
               chat_with_agent_enhanced(payload.text, run))

(* line 625: the generic error text of the except handler *)
ErrorSendNothingMutant(chat_id, net) == NoSend

ErrorSend(chat_id, net) == send_text(chat_id, Str(ErrorText), net)

(* process_zoko_message: the try block and, after an exception, the except *)
(* handler, whose own await raises once its text has gone out              *)
process_zoko_message(payload, general, run, net, errnet) ==
    Apply(LAMBDA tried :
              IF tried.raised
              THEN Outcome(tried.posts \o ErrorSend(payload.platformSenderId, errnet).posts,
                           TRUE, tried.response)
              ELSE tried,
          TryBlock(payload, general, run, net))

----------------------------------------------------------------------------
(* Specification ProcSpec: one delivery is received, the webhook handles   *)
(* it, and the task it added runs process_zoko_message                     *)

TextHello == <<"hello", " ", "there">>

ProcBodies ==
    {UserBody(1), UserBody(2), UserBody(3),
     Body("message:user:in", GoodChat, 1, TextHello, "FROM_CUSTOMER", <<>>),
     Body("message:user:in", ZeroChat, 2, TextQuery, "FROM_CUSTOMER", <<>>),
     Body("message:delivered", GoodChat, 1, <<>>, "FROM_STORE", <<>>),
     Body("message:delivered", GoodChat, 1, TextQuery, "FROM_CUSTOMER", <<>>),
     Body("message:user:in", GoodChat, 1, TextQuery, "FROM_STORE", <<>>),
     Body("message:user:in", GoodChat, 2, <<>>, "FROM_STORE", <<>>),
     Body("message:user:in", GoodChat, 1, TextSorry, "FROM_CUSTOMER", <<>>),
     Body("message:user:in", GoodChat, 2, TextTrouble, "FROM_CUSTOMER", <<>>)}

(* answers of the agent, as the dicts its final output serializes *)
ButtonAnswer ==
    Dict(<<KV("whatsapp_type", Str(<<"buttonTemplate">>)),
           KV("template_id", Str(<<"some_template">>)),
           KV("template_args",
              List(<<Str(<<"https://cdn/villa.png">>), Str(<<"Villa", " ", "Nova">>),
                     Str(<<"PROD-1">>), Str(<<"villa-nova">>)>>))>>)
ProductAnswer ==
    Dict(<<KV("whatsapp_type", Str(<<"buttonTemplate">>)),
           KV("name", Str(<<"<", "b", ">", "Villa", " ", "Nova", "<", "/", "b", ">">>)),
           KV("description", Str(<<"*", "-", "*">>)),
           KV("id", Str(<<"villa-nova">>))>>)
ToolPlan ==
    Dict(<<KV("tool_code", Str(<<"search_products_with_handoff">>)),
           KV("tool_args", Dict(<<KV("query", Str(<<"villa">>))>>))>>)
UnknownPlan ==
    Dict(<<KV("tool_code", Str(<<"drop_catalog">>)),
           KV("tool_args", Dict(<<KV("query", Str(<<"villa">>))>>))>>)
Wrapped == Dict(<<KV("message", TextReply(<<"We have villas">>))>>)

FinalOutputs ==
    {<<"Hello!", " ", "How can I help">>,
     JsonDumps(TextReply(<<"We have villas">>)),
     JsonDumps(TextReply(JsonDumps(ToolPlan))),
     JsonDumps(Wrapped),
     JsonDumps(ButtonAnswer),
     JsonDumps(ProductAnswer),
     JsonDumps(ToolPlan),
     JsonDumps(UnknownPlan),
     <<FenceOpen, "\n">> \o JsonDumps(ToolPlan) \o <<"\n", FenceClose>>,
     JsonDumps(FlatList(Str(<<"Homes">>), Str(<<"Choose">>), <<ItemShort, ItemPlain>>)),
     JsonDumps(FlatList(Str(<<"Homes">>), Str(<<"Choose">>), <<ItemBare>>)),
     JsonDumps(Put(FlatList(Str(<<"Homes">>), Str(<<"Choose">>), <<>>),
                   <<"items">>, Str(<<"none">>)))}

(* Runner.run raises, or ends with a final output *)
AgentRuns ==
    {[raised |-> TRUE, final_output |-> <<>>]}
    \cup {[raised |-> FALSE, final_output |-> out] : out \in FinalOutputs}

ProcNets == {QuietNet, <<"409new", "200">>, <<"500", "200">>, <<"timeout", "200">>}
ErrorNets == {QuietNet, <<"500", "200">>}

ProcCalls ==
    [op : {"process"}, body : ProcBodies, general : GeneralAnswers, run : AgentRuns,
     net : ProcNets, errnet : ErrorNets]

ProcInit == Started /\ call \in ProcCalls /\ result = NoResult

(* the delivery arrives *)
Deliver ==
    /\ call.op = "process"
    /\ last = NoRun
    /\ inflight = EmptyBag
    /\ Receive(call.body)

(* the background task runs process_zoko_message to its end *)
RunTask ==
    /\ call.op = "process"
    /\ background /= <<>>
    /\ \E r \in {process_zoko_message(background[1], call.general, call.run, call.net,
                                      call.errnet)} :
          /\ outbox' = r.posts
          /\ result' = [raised |-> r.raised, value |-> r.response]
    /\ background' = <<>>
    /\ last' = [last EXCEPT !.status = "processed"]
    /\ UNCHANGED <<available_templates, now, processed_ids, inflight, recorded,
                   catalogVars, call>>

ProcNext ==
    \/ Deliver
    \/ \E body \in ProcBodies : Handle(body)
    \/ RunTask

ProcSpec == ProcInit /\ [][ProcNext]_vars

----------------------------------------------------------------------------
(* Specification BatchSpec: process_zoko_message from line 444 on, for an   *)
(* answer that is a list of buttonTemplates.  The loop is run statement by  *)
(* statement: the search of a round, then the products of its batch one by  *)
(* one.                                                                     *)

max_per_batch == 3
SearchLimit == 10

(* a second row without a handle *)
RowSauna ==
    Row(<<"Sauna">>, <<>>, <<"A sauna">>, <<>>, <<>>, <<"3">>, <<"true">>, <<"active">>)

BatchCatalogs ==
    {StockCatalog, File(<<RowVilla, RowSpa, RowSauna>>), File(<<RowHidden>>), MissingFile}

BatchCalls ==
    [op : {"batch"}, chat_id : {GoodChat, NameChat}, user_query : Queries,
     tr : Translations, net : ProcNets, errnet : ErrorNets]

(* the answer of the agent has arrived; the export may have been replaced  *)
(* since the loader was built                                              *)
BatchInit ==
    /\ available_templates = {}
    /\ catalog_file \in BatchCatalogs
    /\ loader = LoadProducts(StockCatalog, NoLoader).loader
    /\ now = 0
    /\ processed_ids = <<>>
    /\ inflight = EmptyBag
    /\ background = <<>>
    /\ outbox = <<>>
    /\ recorded = [i \in MsgIds |-> NotRecorded]
    /\ last = NoRun
    /\ call \in BatchCalls
    /\ result = NoResult

(* the loop was left: by a break and the return of line 469 ("no_new",     *)
(* "short"), or by an exception and the handler of lines 622-625           *)
LeaveLoop(how, loop) == [loop EXCEPT !.pc = "done", !.left = how, !.batch = <<>>]

(* lines 445-449 *)
EnterBatch ==
    /\ call.op = "batch"
    /\ result = NoResult
    /\ result' = [pc |-> "search", left |-> "no", sent_ids |-> {}, batch |-> <<>>,
                  batch_len |-> 0, sent |-> <<>>, searches |-> 0]
    /\ UNCHANGED <<available_templates, outbox, webhookVars, catalogVars, call>>

(* lines 451-455: the search of a round and its batch *)
BatchSearch ==
    /\ call.op = "batch"
    /\ result /= NoResult
    /\ result.pc = "search"
    /\ \E n \in {Len(LoadProducts(catalog_file, loader).loader.df)} :
       \E cos_scores \in [1..n -> Scores] :
       \E top \in [1..n -> 1..n] :
          /\ IsArgsort(top, cos_scores)
          /\ \E r \in {search(loader, catalog_file, call.user_query, call.tr[1],
                               SearchLimit, top, call.tr[2])} :
             \E new_products \in
                  {SelectSeq(r.results,
                             LAMBDA p : Get(p, <<"id">>, PyNone) \notin result.sent_ids)} :
                /\ loader' = r.loader
                /\ outbox' = IF r.raised
                              THEN outbox \o ErrorSend(call.chat_id, call.errnet).posts
                              ELSE outbox
                /\ result' =
                      IF r.raised
                      THEN LeaveLoop("raised", [result EXCEPT !.searches = @ + 1])
                      ELSE IF new_products = <<>>
                      THEN LeaveLoop("no_new", [result EXCEPT !.searches = @ + 1])
                      ELSE [result EXCEPT !.searches = @ + 1, !.pc = "send",
                                          !.batch = Take(new_products, max_per_batch),
                                          !.batch_len = Len(Take(new_products, max_per_batch))]
    /\ UNCHANGED <<available_templates, webhookVars, catalog_file, call>>

(* lines 456-468 for the next product of the batch: its id is noted, its   *)
(* template sent and the result of the send awaited                        *)
BatchSend ==
    /\ call.op = "batch"
    /\ result /= NoResult
    /\ result.pc = "send"
    /\ \E p \in {result.batch[1]} :
       \E args \in {prepare_zoko_upsell_args(p)} :
       \E awaited \in
            {IF args = Raised THEN Outcome(<<>>, TRUE, PyNone)
             ELSE AwaitSend(send_button_template(call.chat_id,
                                Get(p, <<"template_id">>, Str(UpsellTemplate)).v,
                                args, call.net),
                            PyNone)} :
       \E noted \in
            {[result EXCEPT !.sent_ids = @ \cup {Get(p, <<"id">>, PyNone)},
                            !.sent = IF awaited.posts /= <<>>
                                     THEN Append(@, Get(p, <<"id">>, PyNone))
                                     ELSE @,
                            !.batch = Tail(@)]} :
          /\ outbox' = IF awaited.raised
                        THEN outbox \o awaited.posts
                                 \o ErrorSend(call.chat_id, call.errnet).posts
                        ELSE outbox \o awaited.posts
          /\ result' = IF awaited.raised THEN LeaveLoop("raised", noted)
                        ELSE IF noted.batch /= <<>> THEN noted
                        ELSE IF noted.batch_len < max_per_batch THEN LeaveLoop("short", noted)
                        ELSE [noted EXCEPT !.pc = "search"]
    /\ UNCHANGED <<available_templates, webhookVars, catalogVars, call>>

BatchNext == EnterBatch \/ BatchSearch \/ BatchSend

BatchSpec == BatchInit /\ [][BatchNext]_vars

----------------------------------------------------------------------------
(* Properties of the batch loop                                             *)

InLoop == call.op = "batch" /\ result /= NoResult
LoopLeft == InLoop /\ result.pc = "done"

BatchOneRound == InLoop => result.searches <= 1 /\ Len(result.sent) <= 1

----------------------------------------------------------------------------
(* Properties of process_zoko_message                                       *)

(* the task the webhook added has run to its end *)
Ran == call.op = "process" /\ last.status = "processed"

(* the agent's answer is a dict whenever it was asked *)
AnswerIsDict == Ran => (result.value = PyNone \/ IsDict(result.value))

(* C4 as stated: every run of process_zoko_message sends at least one      *)
(* message; none ends with nothing sent.                                   *)
C4_AsStated == Ran => outbox /= <<>>

(* C4, amended: for a sender id in phone format every run of               *)
(* process_zoko_message issues at least one request to the channel, and a  *)
(* run that an exception left has issued the generic error text.           *)
C4_RequestForPhone ==
    (Ran /\ ValidPhone(call.body.platformSenderId)) =>
        /\ outbox /= <<>>
        /\ result.raised => \E i \in 1..Len(outbox) : outbox[i].content = Str(ErrorText)

(* a selection from a phone number has run: the lookup raised and the      *)
(* error text is the one request made                                      *)
C4_Witness ==
    /\ Ran
    /\ ValidPhone(call.body.platformSenderId)
    /\ call.body.reply /= <<>>
    /\ call.general = "no"
    /\ result.raised
    /\ Len(outbox) = 1
    /\ outbox[1].content = Str(ErrorText)

(* the final output of the run, parsed as line 430 parses it *)
ParsedOutput == fully_parse_json(Str(Strip(call.run.final_output)))

(* the run ended with a tool-call plan and the agent was asked *)
PlanAnswered ==
    /\ Ran
    /\ result.value /= PyNone
    /\ ~call.run.raised
    /\ IsToolPlan(ParsedOutput)

ToolErrorText(tool_code) ==
    <<"Sorry, there was an error running the tool:", " ">> \o tool_code \o <<".">>

(* C11: no tool-call plan is dispatched to the channel: a final output    *)
(* that is a plan is returned by chat_with_agent_enhanced as a text       *)
(* message without tool_code, and no request of the run carries a mapping *)
(* with tool_code or a text that parses to one.                           *)
C11_NoPlanDispatched ==
    /\ PlanAnswered =>
          /\ TypeOf(result.value) = Str(<<"text">>)
          /\ ~IsToolPlan(result.value)
    /\ Ran => \A i \in 1..Len(outbox) :
                 /\ outbox[i].type \in {"text", "buttonTemplate", "interactive_list"}
                 /\ ~IsToolPlan(outbox[i].content)
                 /\ IsStr(outbox[i].content) => ~IsToolPlan(fully_parse_json(outbox[i].content))

(* a plan for a mapped tool was answered: what went out first is the text *)
(* of the failed tool call                                                *)
C11_Witness ==
    /\ PlanAnswered
    /\ ParsedOutput = ToolPlan
    /\ Len(outbox) = 2
    /\ outbox[1].type = "text"
    /\ outbox[1].content = Str(ToolErrorText(<<"search_products_with_handoff">>))

----------------------------------------------------------------------------
(* Specification AgentSpec: chat_with_agent_enhanced is called with a user *)
(* message and the run ends as the agent decides                           *)

AgentMessages ==
    {TextQuery, TextHello, TextCzech, TextTrouble, ErrorText \o <<" ", "Please retry">>}

PlanWith(tool_code, tool_args) == Dict(<<KV("tool_code", tool_code), KV("tool_args", tool_args)>>)

QueryArgs == Dict(<<KV("query", Str(<<"villa">>))>>)

ToolPlans ==
    {ToolPlan, UnknownPlan,
     PlanWith(Str(<<"search_one_product_with_handoff">>), QueryArgs),
     PlanWith(Str(<<"search_products_with_handoff">>), Dict(<<>>)),
     PlanWith(Str(<<"search_products_with_handoff">>), List(<<Str(<<"villa">>)>>)),
     PlanWith(Str(<<"search_products_with_handoff">>), Str(<<"villa">>)),
     PlanWith(PyNone, QueryArgs),
     PlanWith(PyInt(7), QueryArgs),
     PlanWith(List(<<Str(<<"search_products_with_handoff">>)>>), QueryArgs),
     PlanWith(ToolPlan, QueryArgs),
     Dict(<<KV("tool_code", Str(<<"search_products_with_handoff">>)),
            KV("query", Str(<<"villa">>))>>),
     Put(ButtonAnswer, <<"tool_code">>, Str(<<"search_products_with_handoff">>))}

PlanOutputs ==
    {JsonDumps(plan) : plan \in ToolPlans}
    \cup {JsonDumps(Str(JsonDumps(ToolPlan))),
          <<"assistant:", " ">> \o JsonDumps(UnknownPlan),
          <<"Plan:", " ", FenceOpen, " ">> \o JsonDumps(UnknownPlan) \o <<" ", FenceClose>>}

AgentCalls ==
    [op : {"chat"}, user_message : AgentMessages, lang : {"en", "cs"},
     run : AgentRuns \cup {[raised |-> FALSE, final_output |-> out] : out \in PlanOutputs}]

AgentInit == Started /\ call \in AgentCalls /\ result = NoResult

(* the keyword arguments of the tool call the run led to at line 449, None *)
(* when no tool was called                                                 *)
PassedArgs(user_message, lang, run) ==
    IF \/ StartsWith(user_message, <<"I'm having trouble processing your request">>)
       \/ StartsWith(user_message, <<"Sorry, something went wrong">>)
       \/ run.raised
    THEN PyNone
    ELSE Apply(LAMBDA response_data :
                   IF CallsTool(response_data)
                   THEN ToolArgs(response_data, AgentLang(user_message, lang))
                   ELSE PyNone,
               fully_parse_json(Str(Strip(run.final_output))))

(* await chat_with_agent_enhanced(user_message, chat_id, lang) *)
Chat ==
    /\ call.op = "chat"
    /\ result = NoResult
    /\ \E answer \in {chat_with_agent_enhanced(call.user_message, call.run)} :
          result' = [raised |-> answer = Raised, value |-> answer,
                     tool_args |-> PassedArgs(call.user_message, call.lang, call.run)]
    /\ UNCHANGED <<available_templates, outbox, webhookVars, catalogVars, call>>

AgentNext == Chat

AgentSpec == AgentInit /\ [][AgentNext]_vars

----------------------------------------------------------------------------
(* Properties of the tool dispatch                                          *)

(* the call has returned, and the run had ended with a tool-call plan *)
PlanDispatched ==
    /\ call.op = "chat"
    /\ result /= NoResult
    /\ ~call.run.raised
    /\ ~IsBotText(call.user_message)
    /\ ~StartsWith(call.user_message, <<"Sorry, something went wrong">>)
    /\ IsToolPlan(ParsedOutput)

UnknownToolText == <<"Sorry, I couldn't process your request (unknown tool).">>

(* C12: tool dispatch never raises: a tool_code that is not in the tool   *)
(* map is answered with the unknown-tool text, an exception of the mapped  *)
(* search function with the text of the failed tool, and whatever the plan *)
(* holds chat_with_agent_enhanced returns a text message.                  *)
C12_DispatchNeverRaises ==
    /\ (call.op = "chat" /\ result /= NoResult) => (~result.raised /\ IsDict(result.value))
    /\ PlanDispatched =>
          LET tool_code == Get(ParsedOutput, <<"tool_code">>, PyNone)
              tool_args == Get(ParsedOutput, <<"tool_args">>, Dict(<<>>))
          IN  /\ TypeOf(result.value) = Str(<<"text">>)
              /\ IsStr(Get(result.value, <<"message">>, PyNone))
              /\ (IsDict(tool_args) /\ IsStr(tool_code) /\ tool_code.v \notin ToolCodes)
                    => Get(result.value, <<"message">>, PyNone) = Str(UnknownToolText)
              /\ (IsDict(tool_args) /\ IsStr(tool_code) /\ tool_code.v \in ToolCodes)
                    => Get(result.value, <<"message">>, PyNone) = Str(ToolErrorText(tool_code.v))

(* the mapped search function raised and its text was returned *)
C12_Witness ==
    /\ PlanDispatched
    /\ ParsedOutput = PlanWith(Str(<<"search_one_product_with_handoff">>), QueryArgs)
    /\ result.value = TextReply(ToolErrorText(<<"search_one_product_with_handoff">>))

(* a list selection from a phone number was processed *)
SelectionRan ==
    /\ Ran
    /\ ValidPhone(call.body.platformSenderId)
    /\ SelectedProductId(call.body) /= <<>>
    /\ call.general = "no"

(* C15 as stated: for a list selection the selected product's button       *)
(* template is sent first, and at most three further button templates      *)
(* follow it, so between one and four button templates are sent.           *)
C15_AsStated ==
    SelectionRan =>
        /\ outbox /= <<>>
        /\ outbox[1].type = "buttonTemplate"
        /\ outbox[1].templateId = UpsellTemplate
        /\ Cardinality({i \in 1..Len(outbox) : outbox[i].type = "buttonTemplate"}) <= 4

(* C16 as stated: no interactive list with zero items is sent to the       *)
(* channel, on any path that sends a list.                                 *)
C16_AsStated ==
    \A i \in 1..Len(outbox) :
        outbox[i].type = "interactive_list" => outbox[i].content.v /= <<>>

(* the keys of the plan beside tool_code, with their values *)
SiblingArgs(plan) == Dict(SelectSeq(plan.v, LAMBDA kv : kv[1] /= <<"tool_code">>))

(* C21 as stated: the arguments passed to the tool of a plan are the       *)
(* tool_args mapping of the plan when it has one, and otherwise the keys   *)
(* of the plan beside tool_code.                                           *)
C21_AsStated ==
    (PlanDispatched /\ result.tool_args /= PyNone) =>
        result.tool_args = IF HasKey(ParsedOutput, <<"tool_args">>)
                           THEN Get(ParsedOutput, <<"tool_args">>, PyNone)
                           ELSE SiblingArgs(ParsedOutput)

(* C21, the part on plans without tool_args alone: the tool is passed the  *)
(* keys of the plan beside tool_code, the language apart.                  *)
C21_SiblingsPassed ==
    (PlanDispatched /\ result.tool_args /= PyNone /\ ~HasKey(ParsedOutput, <<"tool_args">>)) =>
        \A i \in 1..Len(SiblingArgs(ParsedOutput).v) :
            HasKey(result.tool_args, SiblingArgs(ParsedOutput).v[i][1])

(* a message from a phone number was processed and the run of the agent   *)
(* ended with an output that the parsing left a str, no JSON               *)
UnparsedAnswered ==
    /\ Ran
    /\ ValidPhone(call.body.platformSenderId)
    /\ call.general = "no"
    /\ SelectedProductId(call.body) = <<>>
    /\ ~IsBotText(UserText(call.body))
    /\ ~call.run.raised
    /\ IsStr(ParsedOutput)

(* C22 as stated: agent output that cannot be parsed as JSON is delivered  *)
(* to the user as a text message whose body is that output verbatim.       *)
C22_AsStated ==
    UnparsedAnswered =>
        \E i \in 1..Len(outbox) :
            /\ outbox[i].type = "text"
            /\ outbox[i].content = Str(call.run.final_output)

(* the first request of the run was a text other than the generic error    *)
(* text, and the channel accepted it                                       *)
ReplySent ==
    /\ Ran
    /\ outbox /= <<>>
    /\ outbox[1].type = "text"
    /\ outbox[1].content /= Str(ErrorText)
    /\ outbox[1].http = "200"

(* C26 as stated: a run of process_zoko_message in which the text reply    *)
(* was sent sends no error text in addition: it makes exactly one request. *)
C26_AsStated ==
    ReplySent =>
        /\ Len(outbox) = 1
        /\ \A i \in 1..Len(outbox) : outbox[i].content /= Str(ErrorText)

(* the text starts with one of the bot's two error messages *)
IsErrorEcho(text) ==
    \/ StartsWith(text, <<"I'm having trouble processing your request">>)
    \/ StartsWith(text, <<"Sorry, something went wrong">>)

(* C27 as stated: a delivery whose text starts with one of the bot's own   *)
(* error messages never causes an outbound message.                         *)
C27_AsStated ==
    (call.op = "process" /\ IsErrorEcho(UserText(call.body))) => outbox = <<>>

----------------------------------------------------------------------------
(* Properties of the webhook's checks                                       *)

(* the delivery is not a user message, or does not come from the customer *)
Ignorable(body) == body.event /= "message:user:in" \/ body.direction /= "FROM_CUSTOMER"

(* C13: a delivery whose event is not message:user:in, or whose direction *)
(* is not FROM_CUSTOMER, is ignored: no request is made for it, no task is *)
(* scheduled or run, and its id is not recorded.                           *)
C13_IgnoredEvents ==
    (call.op = "process" /\ Ignorable(call.body)) =>
        /\ outbox = <<>>
        /\ background = <<>>
        /\ processed_ids = <<>>
        /\ last.status \in {"none", "skipped", "error"}
        /\ last.dup = "not called"

(* a user message sent by the store itself was handled and skipped *)
C13_Witness ==
    /\ call.op = "process"
    /\ call.body.event = "message:user:in"
    /\ call.body.direction = "FROM_STORE"
    /\ call.body.text = TextQuery
    /\ last.status = "skipped"
    /\ inflight = EmptyBag
    /\ outbox = <<>>
    /\ background = <<>>

====
